---------------------------- MODULE Spec2Model ----------------------------
(***************************************************************************)
(* A model of pip-manager: its environment registry                        *)
(* (src/src/core/env_manager.py, class EnvManager): the in-memory registry  *)
(* self.envs, the persisted document envs.json, the directory trees of the  *)
(* environments, and the operations create_env, delete_env, import_env,     *)
(* get_env_python_path and get_env_info; and of its package engine          *)
(* (src/src/core/package_manager.py, class PackageManager): the constructor, *)
(* install_package, uninstall_package, upgrade_package, load_packages,      *)
(* check_updates and cancel; of the calls MainWindow                       *)
(* (src/src/ui/main_window.py) makes into the engine from the GUI thread;   *)
(* and of its mirror registry (src/src/core/mirror_manager.py, class        *)
(* MirrorManager); and of its configuration store                           *)
(* (src/src/core/config_manager.py, class ConfigManager).  The environment  *)
(* registry runs under Spec, the package engine under PkgSpec, the GUI      *)
(* thread under GuiSpec, the mirror registry under MirrorSpec, the          *)
(* configuration store under ConfigSpec.                                    *)
(*                                                                         *)
(* A path is a sequence of its components, so os.path.join(p, n) is         *)
(* Append(p, n).  The file system is the set of environment root            *)
(* directories that exist (dirs) and the set of interpreter files that      *)
(* exist (files).  External tools (python -m venv, the interpreter's        *)
(* --version query, shutil, open/json.dump) are nondeterministic in their    *)
(* outcome: each action draws the outcome with \E.                          *)
(***************************************************************************)
EXTENDS Naturals, Integers, Sequences, FiniteSets, TLC

VARIABLES
    os_name,      \* os.name: "nt" or "posix", fixed for a run
    envs,         \* EnvManager.envs: name -> [path, description, created_at]
    envs_json,    \* the document at self.envs_config
    dirs,         \* environment root directories that exist on disk
    files,        \* interpreter files that exist on disk (full paths)
    nops,         \* number of registry operations called so far; the
                  \* clock read by datetime.now() ticks once per call
    last,         \* the last call: its arguments, what it returned, what it emitted
    pkg_python_path, \* PackageManager.python_path of the engine in use,
                  \* NoPath if there is none
    is_running,   \* PackageManager._is_running
    pc,           \* where load_packages stands: "idle" when no load is running
    packages,     \* load_packages: the parsed listing of pip list
    idx,          \* load_packages: packages looked up so far (i of the loop)
    package_info, \* load_packages: the local dict package_info
    events,       \* the signals the current engine operation emitted, in order
    pkg_call,     \* the last engine call: its argument, command line, outcome
    gui_stack,    \* the calls the GUI thread is in, the innermost last
    in_flight,    \* the tool invocations that were started and have not exited
    mirrors,      \* MirrorManager.mirrors, in the order of the dict
    current_mirror, \* MirrorManager.current_mirror
    mirrors_json, \* the document at MirrorManager.config_file
    mirror_nops,  \* number of mirror operations called so far
    mirror_call,  \* the last mirror call: its arguments, what it returned
    cfg_files,    \* the file <config_dir>/<name>.json of each configuration name
    configs,      \* ConfigManager.configs: name -> the document last saved
    cfg_nops,     \* number of configuration operations called so far
    cfg_call      \* the last configuration call: its arguments, what it returned

env_vars == <<os_name, envs, envs_json, dirs, files, nops, last>>

pkg_vars ==
    <<pkg_python_path, is_running, pc, packages, idx, package_info, events,
      pkg_call>>

gui_vars == <<gui_stack, in_flight>>

mirror_vars ==
    <<mirrors, current_mirror, mirrors_json, mirror_nops, mirror_call>>

cfg_vars == <<cfg_files, configs, cfg_nops, cfg_call>>

vars == <<env_vars, pkg_vars, gui_vars, mirror_vars, cfg_vars>>

----------------------------------------------------------------------------
(* Bounds of the model.                                                     *)

\* At most MaxOps registry operations are called in a run.
MaxOps == 3

----------------------------------------------------------------------------
(* The inputs.                                                              *)

Names == {"dev", "test"}

\* EnvManager.envs_dir: os.path.join(app_data_dir, 'envs')
envs_dir == <<"appdata", "envs">>

\* A directory the user picks in CreateEnvDialog.browse_path
user_dir == <<"home", "projects">>

Parents == {envs_dir, user_dir}

\* A description is a sequence of pieces of text; <<>> is the empty string.
Descriptions == {<<>>, <<"for work">>}

Stderrs == {"Error: no ensurepip", "Error: permission denied"}

Versions == {"Python 3.11.4"}

\* os.path.join(path, name)
Join(path, name) == Append(path, name)

\* Every directory an environment of the model can live in.
EnvDirs == {Join(p, n) : p \in Parents, n \in Names}

\* The directories offered to import_env as source_path, and what they hold.
\* They are read, never written.
SrcPosix == "/src/posix_env"
SrcMixed == "/src/mixed_env"
SrcMsys == "/src/msys_env"
SrcGone == "/src/gone"
Sources == {SrcPosix, SrcMixed, SrcMsys, SrcGone}

SourceExists(src) == src # SrcGone

SourceFiles(src) ==
    IF src = SrcPosix THEN {<<"bin", "python">>}
    ELSE IF src = SrcMixed
         THEN {<<"python">>, <<"python.exe">>, <<"bin", "python.exe">>}
    ELSE IF src = SrcMsys THEN {<<"bin", "python.exe">>}
    ELSE {}

\* The empty path: an entry read from a hand-written envs.json may lack 'path'.
NoPath == <<>>

\* The empty registry, {}
EmptyEnvs == [n \in {} |-> 0]

\* The document at self.envs_config: no file, a file that is not JSON, or a
\* file holding a registry.
NoFile == [kind |-> "absent", data |-> EmptyEnvs]
Corrupt == [kind |-> "corrupt", data |-> EmptyEnvs]
Doc(registry) == [kind |-> "json", data |-> registry]

----------------------------------------------------------------------------
(* Signals and the record of a call.                                        *)

Signal(sig, text) == [sig |-> sig, text |-> text]

NoInfo ==
    [name |-> "", path |-> NoPath, python_path |-> NoPath, version |-> "",
     description |-> <<>>, created_at |-> 0]

\* op: the operation; name, parent, description, source: its arguments;
\* ok: the boolean it returned (for a lookup: whether it returned a value);
\* raised: an exception left the operation; path, info: the value a lookup
\* returned; signals: the signals emitted, in order; calls: the external
\* calls made, in order; cause: the step that failed, "" if none; stderr: what
\* the venv tool wrote to stderr when it exited nonzero.
Call(op, name) ==
    [op |-> op, name |-> name, parent |-> NoPath, description |-> <<>>,
     source |-> "", ok |-> FALSE, raised |-> FALSE, path |-> NoPath,
     info |-> NoInfo, signals |-> <<>>, calls |-> <<>>, cause |-> "",
     stderr |-> ""]

\* self.operation_error.emit(text)
OperationError(text) == <<Signal("operation_error", text)>>

----------------------------------------------------------------------------
(* The file system.                                                         *)

\* os.path.exists(p)
PathExists(p) == p \in dirs \/ p \in files

\* The files below directory d.
Under(d, fs) ==
    {f \in fs : Len(f) > Len(d) /\ SubSeq(f, 1, Len(d)) = d}

\* The full paths of the relative files rel below d.
Below(d, rel) == {d \o r : r \in rel}

----------------------------------------------------------------------------
(* load_config and save_config.                                             *)

\* What load_config leaves in self.envs for a document it can read.
load_config(doc) == IF doc.kind = "absent" THEN EmptyEnvs ELSE doc.data

\* save_config: open(..., 'w') and json.dump.  "ok" writes the registry;
\* "open_fails" raises before the file is touched; "write_fails" raises after
\* open has truncated it.
SaveOutcomes == {"ok", "open_fails", "write_fails"}

\* (For C7.) A save that returns without writing.
save_config_writes_nothing(doc, registry, outcome) ==
    IF outcome = "write_fails" THEN Corrupt ELSE doc

save_config(doc, registry, outcome) ==
    IF outcome = "ok" THEN Doc(registry)
    ELSE IF outcome = "open_fails" THEN doc
    ELSE Corrupt

----------------------------------------------------------------------------
(* get_env_python_path.                                                     *)

\* (For C8.) The candidates of each platform tried in the opposite order.
possible_paths_reversed(path) ==
    IF os_name = "nt"
    THEN << path \o <<"bin", "python.exe">>,
            path \o <<"python.exe">>,
            path \o <<"Scripts", "python.exe">> >>
    ELSE << path \o <<"python">>,
            path \o <<"bin", "python">> >>

\* possible_paths, by os.name
possible_paths(path) ==
    IF os_name = "nt"
    THEN << path \o <<"Scripts", "python.exe">>,
            path \o <<"python.exe">>,
            path \o <<"bin", "python.exe">> >>
    ELSE << path \o <<"bin", "python">>,
            path \o <<"python">> >>

\* The for loop over possible_paths: the first that exists, or NoPath.
RECURSIVE FirstExisting(_)
FirstExisting(paths) ==
    IF paths = <<>> THEN NoPath
    ELSE IF PathExists(Head(paths)) THEN Head(paths)
    ELSE FirstExisting(Tail(paths))

\* (For C9.) The failure is logged and not emitted.
InterpreterNotFound_silent(env_name) == <<>>

\* What get_env_python_path emits when no candidate exists.
InterpreterNotFound(env_name) ==
    OperationError(<<"no interpreter found", env_name>>)

\* get_env_python_path(env_name): what it returns and the signals it emits.
get_env_python_path(env_name) ==
    IF env_name \notin DOMAIN envs
    THEN [found |-> FALSE, path |-> NoPath, cause |-> "not_registered",
          signals |-> OperationError(<<"env does not exist", env_name>>)]
    ELSE IF envs[env_name].path = NoPath
    THEN [found |-> FALSE, path |-> NoPath, cause |-> "no_path",
          signals |-> OperationError(<<"env path not set", env_name>>)]
    ELSE LET python_path == FirstExisting(possible_paths(envs[env_name].path))
         IN  IF python_path # NoPath
             THEN [found |-> TRUE, path |-> python_path, cause |-> "",
                   signals |-> <<>>]
             ELSE [found |-> FALSE, path |-> NoPath, cause |-> "no_interpreter",
                   signals |-> InterpreterNotFound(env_name)]

----------------------------------------------------------------------------
(* get_env_info.                                                            *)

\* The interpreter's --version query: exit 0, a nonzero exit, or
\* subprocess.run raising.
QueryOutcomes == {"exit0", "nonzero", "raise"}

\* get_env_info(env_name) under outcome q of the version query.
get_env_info(env_name, q, version) ==
    IF env_name \notin DOMAIN envs
    THEN [found |-> FALSE, info |-> NoInfo, signals |-> <<>>, calls |-> <<>>]
    ELSE LET r == get_env_python_path(env_name)
         IN  IF ~r.found
             THEN [found |-> FALSE, info |-> NoInfo, signals |-> r.signals,
                   calls |-> <<>>]
             ELSE IF q = "raise"
             THEN [found |-> FALSE, info |-> NoInfo, signals |-> <<>>,
                   calls |-> <<"version">>]
             ELSE [found |-> TRUE,
                   info |-> [name |-> env_name,
                             path |-> envs[env_name].path,
                             python_path |-> r.path,
                             version |-> IF q = "exit0" THEN version ELSE "unknown",
                             description |-> envs[env_name].description,
                             created_at |-> envs[env_name].created_at],
                   signals |-> <<>>, calls |-> <<"version">>]

----------------------------------------------------------------------------
(* The initial state: a manager just constructed on a data directory that   *)
(* holds no envs.json, or one written earlier.                              *)

\* A document left by an earlier run: "dev" was registered under envs_dir and
\* its directory has been deleted since; the entry of "test" has no 'path'.
OldDoc ==
    [n \in Names |->
        [path |-> IF n = "dev" THEN Join(envs_dir, n) ELSE NoPath,
         description |-> <<>>, created_at |-> 0]]

InitialDocs == {NoFile, Doc(OldDoc)}

----------------------------------------------------------------------------
(* The package engine: its signals and the record of a call.                *)

\* package_info = {}
NoPackages == [n \in {} |-> 0]

\* A signal of PackageManager as it is emitted: n is the value of
\* progress_updated, text the str of the success and error signals (a
\* sequence of pieces of text), info the dict of package_loaded.
Progress(n) ==
    [sig |-> "progress_updated", n |-> n, text |-> <<>>, info |-> NoPackages]

Emitted(sig, text) ==
    [sig |-> sig, n |-> 0, text |-> text, info |-> NoPackages]

Loaded(info) ==
    [sig |-> "package_loaded", n |-> 0, text |-> <<>>, info |-> info]

\* op: the operation; arg: its argument (a path, a package name or an install
\* spec, as a sequence of pieces); flags, target: the command line it ran,
\* the pip arguments before the package and the package argument; tool: how
\* the external command ended ("none" if none ran); stderr: what it wrote to
\* stderr; cause: why the operation ended early ("" if it did not); ret: the
\* value returned ("none" for None); raised: an exception left the operation;
\* cancelled: cancel() had been called on the engine when the operation was
\* entered.
PkgCall(op, arg) ==
    [op |-> op, arg |-> arg, flags |-> <<>>, target |-> <<>>, tool |-> "none",
     stderr |-> "", cause |-> "", ret |-> "none", raised |-> FALSE,
     cancelled |-> FALSE]

\* No PackageManager has been constructed: MainWindow.package_manager = None.
NoEngine ==
    /\ pkg_python_path = NoPath
    /\ is_running = TRUE
    /\ pc = "idle"
    /\ packages = <<>>
    /\ idx = 0
    /\ package_info = NoPackages
    /\ events = <<>>
    /\ pkg_call = PkgCall("none", <<>>)

\* The GUI thread is in the event loop and no tool runs.
GuiIdle ==
    /\ gui_stack = <<>>
    /\ in_flight = <<>>

----------------------------------------------------------------------------
(* The mirror registry: its records.                                        *)

\* A mirror, the tuple (name, url).  A url is the sequence of its pieces,
\* the scheme first.
Mirror(name, url) == [name |-> name, url |-> url]

\* current_mirror = None
NoMirror == Mirror("", <<>>)

\* The document at config_file: no file, a file json.load cannot use, or a
\* file holding 'mirrors' and 'current' ("" is null or a missing key).
NoMirrorsFile == [kind |-> "absent", mirrors |-> <<>>, current |-> ""]
CorruptMirrors == [kind |-> "corrupt", mirrors |-> <<>>, current |-> ""]
MirrorsDoc(ms, current) == [kind |-> "json", mirrors |-> ms, current |-> current]

\* op: the operation; name, url: its arguments; ok: the boolean it
\* returned; signals: the signals emitted, in order; saved: save_mirrors was
\* called; doc: the document load_mirrors read; prev: the operation called
\* before this one.
MirrorCall(op, name, url) ==
    [op |-> op, name |-> name, url |-> url, ok |-> FALSE, signals |-> <<>>,
     saved |-> FALSE, doc |-> NoMirrorsFile, prev |-> "none"]

\* No MirrorManager has been constructed.
NoMirrorManager ==
    /\ mirrors = <<>>
    /\ current_mirror = NoMirror
    /\ mirrors_json = NoMirrorsFile
    /\ mirror_nops = 0
    /\ mirror_call = MirrorCall("none", "", <<>>)

----------------------------------------------------------------------------
(* The configuration store: its records.                                    *)
(*                                                                         *)
(* A document is a mapping from keys to values, a function here.  A file    *)
(* holds the text json.dump wrote: the sequence of the document's           *)
(* <<key, value>> items; or it is missing, or it holds no JSON.             *)

\* The configuration names in use.
ConfigNames == {"proxy", "theme"}

EmptyDoc == [k \in {} |-> ""]

NoConfigFile == [kind |-> "absent", text |-> <<>>]
CorruptConfig == [kind |-> "corrupt", text |-> <<>>]
JsonFile(text) == [kind |-> "json", text |-> text]

\* op: the operation; name: the configuration name; data: the document or
\* the updates handed in; ok: the boolean returned; found: load_config
\* returned a document and not None; doc: that document; signals: the
\* signals emitted, in order; before: the file of name when the operation
\* was entered.
CfgCall(op, name) ==
    [op |-> op, name |-> name, data |-> EmptyDoc, ok |-> FALSE,
     found |-> FALSE, doc |-> EmptyDoc, signals |-> <<>>,
     before |-> NoConfigFile]

\* No configuration file exists and nothing has been saved.
NoConfigManager ==
    /\ cfg_files = [n \in ConfigNames |-> NoConfigFile]
    /\ configs = [n \in {} |-> EmptyDoc]
    /\ cfg_nops = 0
    /\ cfg_call = CfgCall("none", "")

Init ==
    /\ os_name \in {"nt", "posix"}
    /\ envs_json \in InitialDocs
    /\ envs = load_config(envs_json)
    /\ dirs = {}
    /\ files = {}
    /\ nops = 0
    /\ last = Call("init", "")
    /\ NoEngine
    /\ GuiIdle
    /\ NoMirrorManager
    /\ NoConfigManager

----------------------------------------------------------------------------
(* The operations.                                                          *)

\* What python -m venv leaves in the directory on success: the platform's
\* interpreter.
VenvFiles == IF os_name = "nt" THEN {<<"Scripts", "python.exe">>}
             ELSE {<<"bin", "python">>}

VenvOutcomes == {"ok", "nonzero", "oserror"}

\* (For C3.) The check for an existing name left out.
Registered_unchecked(env_name) == FALSE

\* env_name in self.envs
Registered(env_name) == env_name \in DOMAIN envs

\* The registry with entry added under env_name: self.envs[env_name] = entry
With(registry, env_name, entry) ==
    [n \in DOMAIN registry \cup {env_name} |->
        IF n = env_name THEN entry ELSE registry[n]]

\* (For C1.) The entry stored without the description.
CreatedEntry_no_description(venv_path, description) ==
    [path |-> venv_path, description |-> <<>>, created_at |-> nops]

\* The entry create_env stores.
CreatedEntry(venv_path, description) ==
    [path |-> venv_path, description |-> description, created_at |-> nops]

\* (For C6.) The message without the tool's stderr.
VenvFailed_no_stderr(stderr) == OperationError(<<"venv failed">>)

\* What create_env emits when the venv tool exits nonzero.
VenvFailed(stderr) == OperationError(<<"venv failed", stderr>>)

\* create_env(env_name, path, description)
create_env(env_name, path, description) ==
    LET c == [Call("create", env_name) EXCEPT !.parent = path,
                                              !.description = description]
        venv_path == Join(path, env_name)
    IN
    /\ nops < MaxOps
    /\ nops' = nops + 1
    /\ UNCHANGED os_name
    /\ IF Registered(env_name)
       THEN /\ last' = [c EXCEPT !.cause = "exists",
                          !.signals = OperationError(<<"env exists", env_name>>)]
            /\ UNCHANGED <<envs, envs_json, dirs, files>>
       ELSE \E venv \in VenvOutcomes, stderr \in Stderrs, save \in SaveOutcomes :
            IF venv = "oserror"
            THEN /\ last' = [c EXCEPT !.cause = "venv_oserror",
                               !.calls = <<"venv">>,
                               !.signals = OperationError(<<"create failed", "OSError">>)]
                 /\ UNCHANGED <<envs, envs_json, dirs, files>>
            ELSE IF venv = "nonzero"
            THEN /\ last' = [c EXCEPT !.cause = "venv_nonzero",
                               !.calls = <<"venv">>,
                               !.stderr = stderr,
                               !.signals = VenvFailed(stderr)]
                 /\ UNCHANGED <<envs, envs_json, dirs, files>>
            ELSE /\ dirs' = dirs \cup {venv_path}
                 /\ files' = files \cup Below(venv_path, VenvFiles)
                 /\ envs' = With(envs, env_name, CreatedEntry(venv_path, description))
                 /\ envs_json' = save_config(envs_json, envs', save)
                 /\ last' = IF save = "ok"
                            THEN [c EXCEPT !.ok = TRUE,
                                    !.calls = <<"venv", "save">>,
                                    !.signals = <<Signal("env_created", <<env_name>>)>>]
                            ELSE [c EXCEPT !.cause = "save",
                                    !.calls = <<"venv", "save">>,
                                    !.signals = OperationError(<<"create failed", "OSError">>)]

CreateEnv ==
    \E n \in Names, p \in Parents, d \in Descriptions : create_env(n, p, d)

\* A call of get_env_python_path(env_name)
ResolveInterpreter ==
    \E n \in Names :
        LET r == get_env_python_path(n)
        IN  /\ nops < MaxOps
            /\ nops' = nops + 1
            /\ last' = [Call("resolve", n) EXCEPT !.ok = r.found, !.path = r.path,
                          !.signals = r.signals, !.cause = r.cause]
            /\ UNCHANGED <<os_name, envs, envs_json, dirs, files>>

\* A call of get_env_info(env_name)
GetEnvInfo ==
    \E n \in Names, q \in QueryOutcomes, v \in Versions :
        LET r == get_env_info(n, q, v)
        IN  /\ nops < MaxOps
            /\ nops' = nops + 1
            /\ last' = [Call("get_info", n) EXCEPT !.ok = r.found, !.info = r.info,
                          !.signals = r.signals, !.calls = r.calls]
            /\ UNCHANGED <<os_name, envs, envs_json, dirs, files>>

\* The registry without env_name: del self.envs[env_name]
Without(registry, env_name) ==
    [n \in DOMAIN registry \ {env_name} |-> registry[n]]

\* What a removal that raises may leave of the files below a directory:
\* everything (it raised at the first file) or nothing (it raised at the
\* final rmdir).
Leftovers(below) == {below, {}}

\* (For C4.) The removal error is logged and not emitted.
RemovalFailed_silent == <<>>

\* What delete_env emits when removing the directory raises.
RemovalFailed == OperationError(<<"delete failed", "OSError">>)

\* delete_env(env_name)
delete_env(env_name) ==
    LET c == Call("delete", env_name)
        env_dir == Join(envs_dir, env_name)
        below == Under(env_dir, files)
    IN
    /\ nops < MaxOps
    /\ nops' = nops + 1
    /\ UNCHANGED os_name
    /\ IF ~Registered(env_name)
       THEN /\ last' = [c EXCEPT !.cause = "not_registered",
                          !.signals = OperationError(<<"env does not exist", env_name>>)]
            /\ UNCHANGED <<envs, envs_json, dirs, files>>
       ELSE \E rm \in {"ok", "raise"}, save \in SaveOutcomes :
            IF PathExists(env_dir) /\ rm = "raise"
            THEN \E kept \in Leftovers(below) :
                 /\ files' = (files \ below) \cup kept
                 /\ last' = [c EXCEPT !.cause = "rmtree", !.calls = <<"rmtree">>,
                               !.signals = RemovalFailed]
                 /\ UNCHANGED <<envs, envs_json, dirs>>
            ELSE /\ dirs' = dirs \ {env_dir}
                 /\ files' = files \ below
                 /\ envs' = Without(envs, env_name)
                 /\ envs_json' = save_config(envs_json, envs', save)
                 /\ last' = LET rmcalls == IF PathExists(env_dir)
                                           THEN <<"rmtree", "save">> ELSE <<"save">>
                            IN  IF save = "ok"
                                THEN [c EXCEPT !.ok = TRUE, !.calls = rmcalls,
                                        !.signals = <<Signal("env_deleted",
                                                             <<env_name>>)>>]
                                ELSE [c EXCEPT !.raised = TRUE, !.cause = "save",
                                        !.calls = rmcalls]

DeleteEnv == \E n \in Names : delete_env(n)

\* What a copy that raises may have copied of the source's files: nothing
\* (it raised at the first file) or everything (it raised at the final
\* copystat of the directory).
Copied(src) == {{}, SourceFiles(src)}

\* (For C10.) The source directory registered as the environment's path.
ImportedEntry_source_as_path(env_dir, source_path) ==
    [path |-> <<source_path>>,
     description |-> <<"imported from", source_path>>,
     created_at |-> nops]

\* The entry import_env stores.
ImportedEntry(env_dir, source_path) ==
    [path |-> env_dir,
     description |-> <<"imported from", source_path>>,
     created_at |-> nops]

\* import_env(source_path, env_name)
import_env(source_path, env_name) ==
    LET c == [Call("import", env_name) EXCEPT !.source = source_path]
        env_dir == Join(envs_dir, env_name)
        mk == IF PathExists(env_dir) THEN <<>> ELSE <<"makedirs">>
    IN
    /\ nops < MaxOps
    /\ nops' = nops + 1
    /\ UNCHANGED os_name
    /\ IF Registered(env_name)
       THEN /\ last' = [c EXCEPT !.cause = "exists",
                          !.signals = OperationError(<<"env exists", env_name>>)]
            /\ UNCHANGED <<envs, envs_json, dirs, files>>
       ELSE \E makedirs \in {"ok", "raise"}, copy \in {"ok", "raise"},
               save \in SaveOutcomes :
            IF ~PathExists(env_dir) /\ makedirs = "raise"
            THEN /\ last' = [c EXCEPT !.raised = TRUE, !.cause = "makedirs",
                               !.calls = <<"makedirs">>]
                 /\ UNCHANGED <<envs, envs_json, dirs, files>>
            ELSE IF ~SourceExists(source_path) \/ copy = "raise"
            THEN \E copied \in Copied(source_path) :
                 /\ dirs' = dirs \cup {env_dir}
                 /\ files' = files \cup Below(env_dir, copied)
                 /\ last' = [c EXCEPT !.cause = "copytree",
                               !.calls = mk \o <<"copytree">>,
                               !.signals = OperationError(<<"import failed", "OSError">>)]
                 /\ UNCHANGED <<envs, envs_json>>
            ELSE /\ dirs' = dirs \cup {env_dir}
                 /\ files' = files \cup Below(env_dir, SourceFiles(source_path))
                 /\ envs' = With(envs, env_name, ImportedEntry(env_dir, source_path))
                 /\ envs_json' = save_config(envs_json, envs', save)
                 /\ last' = IF save = "ok"
                            THEN [c EXCEPT !.ok = TRUE,
                                    !.calls = mk \o <<"copytree", "save">>,
                                    !.signals = <<Signal("env_imported",
                                                         <<env_name>>)>>]
                            ELSE [c EXCEPT !.raised = TRUE, !.cause = "save",
                                    !.calls = mk \o <<"copytree", "save">>]

ImportEnv == \E src \in Sources, n \in Names : import_env(src, n)

\* EnvManager(app_data_dir) constructed afresh on the same data directory:
\* load_config reads envs.json; a document that is not JSON makes the
\* constructor raise, and the manager in use stays.
Construct ==
    /\ nops < MaxOps
    /\ nops' = nops + 1
    /\ IF envs_json.kind = "corrupt"
       THEN /\ last' = [Call("init", "") EXCEPT !.raised = TRUE, !.cause = "load"]
            /\ UNCHANGED envs
       ELSE /\ last' = [Call("init", "") EXCEPT !.ok = TRUE]
            /\ envs' = load_config(envs_json)
    /\ UNCHANGED <<os_name, envs_json, dirs, files>>

\* The registry's operations leave the package engine alone.
Next ==
    \/ CreateEnv /\ UNCHANGED <<pkg_vars, gui_vars, mirror_vars, cfg_vars>>
    \/ DeleteEnv /\ UNCHANGED <<pkg_vars, gui_vars, mirror_vars, cfg_vars>>
    \/ ImportEnv /\ UNCHANGED <<pkg_vars, gui_vars, mirror_vars, cfg_vars>>
    \/ ResolveInterpreter /\ UNCHANGED <<pkg_vars, gui_vars, mirror_vars, cfg_vars>>
    \/ GetEnvInfo /\ UNCHANGED <<pkg_vars, gui_vars, mirror_vars, cfg_vars>>
    \/ Construct /\ UNCHANGED <<pkg_vars, gui_vars, mirror_vars, cfg_vars>>

Spec == Init /\ [][Next]_vars

----------------------------------------------------------------------------
(* The properties.                                                          *)

\* The elements of a sequence.
Range(seq) == {seq[i] : i \in 1..Len(seq)}

\* Exactly one signal was emitted, and it is operation_error.
OneError(call) ==
    Len(call.signals) = 1 /\ call.signals[1].sig = "operation_error"

NoChange == UNCHANGED <<envs, envs_json, dirs, files>>

\* get_env_info(n) returns a record with the path and description given.
InfoHas(n, q, path, description) ==
    \A v \in Versions :
        LET r == get_env_info(n, q, v)
        IN  /\ r.found
            /\ r.info.name = n
            /\ r.info.path = path
            /\ r.info.description = description

\* C1, as stated: in the state a successful create(n, p, d) leaves,
\* get_info(n) returns a record whose path is p/n and whose description is
\* d, whatever the interpreter's version query does.
C1_GetInfoAlwaysReturnsRecord ==
    (last.op = "create" /\ last.ok) =>
        \A q \in QueryOutcomes :
            InfoHas(last.name, q, Join(last.parent, last.name), last.description)

\* C1, amended: in the state a successful create(n, p, d) leaves,
\* get_info(n) returns a record whose path is p/n and whose description is
\* d whenever the interpreter's version query can be started (it exits 0 or
\* nonzero), and returns absent when starting the query raises.
C1_CreateThenGetInfo ==
    (last.op = "create" /\ last.ok) =>
        \A q \in QueryOutcomes :
            IF q = "raise"
            THEN \A v \in Versions : ~get_env_info(last.name, q, v).found
            ELSE InfoHas(last.name, q, Join(last.parent, last.name),
                         last.description)

C1_Witness ==
    /\ last.op = "create" /\ last.ok
    /\ last.parent = user_dir
    /\ last.description = <<"for work">>
    /\ InfoHas(last.name, "exit0", Join(user_dir, last.name), <<"for work">>)

\* C2: a successful delete(n) of a registered n removes the directory tree
\* at n's registered root path and the registry entry, and get_info(n) then
\* returns absent.
C2_DeleteRemovesRegisteredRoot ==
    [][(last'.op = "delete" /\ last'.ok) =>
          /\ envs[last'.name].path \notin dirs'
          /\ Under(envs[last'.name].path, files') = {}
          /\ last'.name \notin DOMAIN envs'
          /\ \A n \in Names, q \in QueryOutcomes, v \in Versions :
                n = last'.name => ~(get_env_info(n, q, v).found)']_vars

\* C3: create and import called with a registered name return failure, emit
\* one error notification, call no external tool (no venv, no copy) and
\* change neither the registry, nor the document, nor the file system.
C3_RegisteredNameRejected ==
    [][(last'.op \in {"create", "import"} /\ last'.name \in DOMAIN envs) =>
          /\ ~last'.ok /\ ~last'.raised
          /\ OneError(last')
          /\ last'.calls = <<>>
          /\ NoChange]_vars

C3_Witness ==
    /\ last.op = "import"
    /\ last.cause = "exists"
    /\ last.name \in DOMAIN envs
    /\ envs[last.name].description = <<"for work">>

\* C4: when removing the directory tree raises during delete(n), delete
\* returns failure, emits one error notification, and the entry of n stays
\* in the registry; the registry and the persisted document are unchanged.
C4_RemovalErrorKeepsEntry ==
    [][(last'.op = "delete" /\ last'.cause = "rmtree") =>
          /\ ~last'.ok /\ ~last'.raised
          /\ OneError(last')
          /\ last'.name \in DOMAIN envs'
          /\ envs' = envs
          /\ envs_json' = envs_json]_vars

C4_Witness ==
    /\ last.op = "delete" /\ last.cause = "rmtree"
    /\ last.name \in DOMAIN envs
    /\ envs_json.kind = "json" /\ last.name \in DOMAIN envs_json.data
    /\ Join(envs_dir, last.name) \in dirs

\* C5: no operation of the registry raises to its caller, and every failed
\* create, delete, import and resolve emits an error notification.
C5_NeverRaises ==
    /\ last.op \in {"create", "delete", "import", "resolve", "get_info"} =>
          ~last.raised
    /\ (last.op \in {"create", "delete", "import", "resolve"} /\ ~last.ok) =>
          \E i \in 1..Len(last.signals) : last.signals[i].sig = "operation_error"

\* C6: when the venv tool exits nonzero during create(n, p, d), create
\* returns failure, emits exactly one error notification, whose text holds
\* the tool's stderr, emits no env_created, and leaves registry and document
\* unchanged.
C6_VenvNonzeroExit ==
    [][(last'.op = "create" /\ last'.cause = "venv_nonzero") =>
          /\ ~last'.ok /\ ~last'.raised
          /\ OneError(last')
          /\ last'.stderr \in Range(last'.signals[1].text)
          /\ envs' = envs
          /\ envs_json' = envs_json]_vars

C6_Witness ==
    /\ last.op = "create" /\ last.cause = "venv_nonzero"
    /\ last.stderr = "Error: permission denied"
    /\ last.name \notin DOMAIN envs

\* C7: after every create, import or delete that returns success, the
\* document holds the registry: a manager constructed afresh on it lists the
\* same names with the same path, description and created_at.
C7_PersistedEqualsMemory ==
    (last.op \in {"create", "import", "delete"} /\ last.ok) =>
        /\ envs_json.kind = "json"
        /\ DOMAIN load_config(envs_json) = DOMAIN envs
        /\ \A n \in DOMAIN envs :
              /\ load_config(envs_json)[n].path = envs[n].path
              /\ load_config(envs_json)[n].description = envs[n].description
              /\ load_config(envs_json)[n].created_at = envs[n].created_at

C7_Witness ==
    /\ last.op = "delete" /\ last.ok
    /\ Cardinality(DOMAIN envs) = 1
    /\ envs_json = Doc(envs)
    /\ \E n \in DOMAIN envs : envs[n].created_at > 0

\* The candidates of the two conventions, relative to the root, in order.
WindowsCandidates ==
    << <<"Scripts", "python.exe">>, <<"python.exe">>, <<"bin", "python.exe">> >>
PosixCandidates == << <<"bin", "python">>, <<"python">> >>

\* C8: resolve_interpreter(n) of a registered n with a path returns the
\* first candidate of the platform's list that exists on disk, absent when
\* none exists; a root holding only bin/python resolves to absent under the
\* Windows convention and to root/bin/python under the POSIX convention.
C8_FirstExistingCandidate ==
    (last.op = "resolve" /\ last.name \in DOMAIN envs
        /\ envs[last.name].path # NoPath) =>
        LET root == envs[last.name].path
            cands == IF os_name = "nt" THEN WindowsCandidates ELSE PosixCandidates
            hits == {i \in 1..Len(cands) : PathExists(root \o cands[i])}
        IN  /\ hits = {} => (~last.ok /\ last.path = NoPath)
            /\ hits # {} =>
                  /\ last.ok
                  /\ \E i \in hits : /\ \A j \in hits : i <= j
                                     /\ last.path = root \o cands[i]
            /\ Under(root, files) = {root \o <<"bin", "python">>} =>
                  IF os_name = "nt" THEN ~last.ok
                  ELSE last.ok /\ last.path = root \o <<"bin", "python">>

C8_Witness ==
    /\ last.op = "resolve" /\ last.ok
    /\ os_name = "nt"
    /\ last.path = envs[last.name].path \o <<"python.exe">>
    /\ PathExists(envs[last.name].path \o <<"bin", "python.exe">>)

\* C9: every failed interpreter resolution returns absent, emits an error
\* notification, raises nothing, and changes neither the registry, nor the
\* document, nor the file system.
C9_FailedResolution ==
    [][(last'.op = "resolve" /\ ~last'.ok) =>
          /\ ~last'.raised
          /\ last'.path = NoPath
          /\ OneError(last')
          /\ NoChange]_vars

C9_Witness ==
    /\ last.op = "resolve" /\ ~last.ok
    /\ last.name \in DOMAIN envs
    /\ envs[last.name].path # NoPath
    /\ envs[last.name].path \notin dirs

\* C10: a successful import(src, n) of an unregistered n adds exactly the
\* entry n, with the path envs_dir/n and a description that holds src,
\* leaves every other entry as it was, and merges into a destination
\* directory that exists: no file that was there is removed.
C10_ImportAddsOneEntry ==
    [][(last'.op = "import" /\ last'.ok) =>
          /\ last'.name \notin DOMAIN envs
          /\ DOMAIN envs' = DOMAIN envs \cup {last'.name}
          /\ envs'[last'.name].path = Join(envs_dir, last'.name)
          /\ last'.source \in Range(envs'[last'.name].description)
          /\ \A n \in DOMAIN envs : envs'[n] = envs[n]
          /\ files \subseteq files'
          /\ Below(Join(envs_dir, last'.name), SourceFiles(last'.source))
                \subseteq files']_vars

\* An import that succeeded into a directory that held other files already.
C10_Witness ==
    /\ last.op = "import" /\ last.ok
    /\ last.calls = <<"copytree", "save">>
    /\ Cardinality(DOMAIN envs) = 2
    /\ Under(Join(envs_dir, last.name), files)
          \ Below(Join(envs_dir, last.name), SourceFiles(last.source)) # {}

----------------------------------------------------------------------------
(* The package engine: bounds and inputs.                                   *)

\* pip list reports at most MaxPkgs packages.
MaxPkgs == 3

\* The interpreter paths handed to PackageManager(python_path, env_name): one
\* that exists on disk and one that does not.
GoodPython == <<"appdata", "envs", "dev", "bin", "python">>
MissingPython == <<"appdata", "envs", "test", "bin", "python">>
PythonPaths == {GoodPython, MissingPython}

\* What is handed to install_package: a name, a name with an exact-version
\* pin, a name with a minimum version (a line of a requirements file).  A
\* spec is the sequence of its pieces; the str is their concatenation, and
\* no piece but "==" contains "==".
InstallSpecs ==
    {<<"requests">>, <<"requests", "==", "2.31.0">>, <<"requests", ">=", "2.0">>}

\* What is handed to uninstall_package and upgrade_package: a name.
PackageNames == {<<"requests">>}

\* str(e) of an exception raised by subprocess.run
Exceptions == {"[Errno 13] Permission denied"}

\* How a pip command ends: exit 0, a nonzero exit, or subprocess.run raising.
PipOutcomes == {"exit0", "nonzero", "raise"}

\* The entries pip list --format=json can report.  The last two have an
\* empty name and an empty version.
PkgEntries ==
    {[name |-> "requests", version |-> "2.31.0"],
     [name |-> "urllib3", version |-> "2.0.7"],
     [name |-> "", version |-> "0.1"],
     [name |-> "six", version |-> ""]}

\* The parsed listings: the sequences of at most MaxPkgs different entries.
Listings ==
    {l \in UNION {[1..n -> PkgEntries] : n \in 0..MaxPkgs} :
        \A i, j \in DOMAIN l : i # j => l[i] # l[j]}

\* The Requires: line of pip show <name>: requests requires urllib3.
Requires(name) == IF name = "requests" THEN <<"urllib3">> ELSE <<>>

\* The Location: line of pip show <name>
Location == "/env/lib/site-packages"

\* The creation time of the package's directory, formatted
CTime == "2024-05-01 10:00:00"

\* pip show <name>: exit 0 or not, or subprocess.run raising; dir: whether
\* the package's directory exists below the location.
ShowResults ==
    {[rc |-> "exit0", dir |-> TRUE], [rc |-> "exit0", dir |-> FALSE],
     [rc |-> "nonzero", dir |-> FALSE], [rc |-> "raise", dir |-> FALSE]}

----------------------------------------------------------------------------
(* The package engine: the constructor.                                     *)

\* A constructor that does not look at the exit status of the version query.
InterpreterUsable_exit_unchecked(path, q) == PathExists(path) /\ q # "raise"

\* __init__ returns when the path exists and the version query exits 0; it
\* raises ValueError otherwise.
InterpreterUsable(path, q) == PathExists(path) /\ q = "exit0"

\* PackageManager(python_path, env_name), as MainWindow.on_env_changed calls
\* it and assigns the result to self.package_manager: when the constructor
\* raises, the assignment does not happen and the engine in use stays.
PkgConstruct(path, q) ==
    /\ pc = "idle"
    /\ LET c == [PkgCall("construct", path) EXCEPT
                    !.flags = IF PathExists(path) THEN <<"--version">> ELSE <<>>,
                    !.tool = IF PathExists(path) THEN q ELSE "none"]
       IN  IF InterpreterUsable(path, q)
           THEN /\ pkg_python_path' = path
                /\ is_running' = TRUE
                /\ pkg_call' = c
           ELSE /\ pkg_call' = [c EXCEPT !.raised = TRUE,
                                         !.cause = IF PathExists(path)
                                                   THEN "version" ELSE "path"]
                /\ UNCHANGED <<pkg_python_path, is_running>>
    /\ events' = <<>>
    /\ packages' = <<>>
    /\ idx' = 0
    /\ package_info' = NoPackages
    /\ UNCHANGED <<pc, env_vars>>

ConstructEngine == \E path \in PythonPaths, q \in QueryOutcomes : PkgConstruct(path, q)

----------------------------------------------------------------------------
(* The package engine: install_package, uninstall_package, upgrade_package. *)

\* A test that takes every version constraint for a pin.
has_version_pin_any_constraint(package_name) == Len(package_name) > 1

\* '==' in package_name
has_version_pin(package_name) == "==" \in Range(package_name)

\* A success signal that carries the name without its pin.
Succeeded_name_only(sig, package_name) ==
    <<Progress(0), Progress(100), Emitted(sig, <<Head(package_name)>>)>>

\* The signals of one operation, in order, when pip exits 0: progress 0,
\* progress 100, the success signal carrying the argument.
Succeeded(sig, package_name) ==
    <<Progress(0), Progress(100), Emitted(sig, package_name)>>

\* ... when pip exits nonzero: progress 0, progress 100, the error signal
\* carrying the message and result.stderr.
Failed(sig, message, stderr) ==
    <<Progress(0), Progress(100), Emitted(sig, <<message, stderr>>)>>

\* An except clause that swallows the exception.
Crashed_silent(sig, message, e) == <<Progress(0)>>

\* ... when subprocess.run raises: progress 0, then the except clause emits
\* the error signal carrying the message and str(e).
Crashed(sig, message, e) ==
    <<Progress(0), Emitted(sig, <<message, e>>)>>

\* The body the three operations share: run the command c.flags + c.target
\* with the interpreter, emit, return True or False.  MainWindow calls the
\* operations from the GUI thread, one at a time, on the engine in use.
RunPip(c, sigs, out, stderr, e) ==
    /\ pc = "idle"
    /\ pkg_python_path # NoPath
    /\ events' = CASE out = "exit0" -> Succeeded(sigs.ok, c.arg)
                   [] out = "nonzero" -> Failed(sigs.error, sigs.failed, stderr)
                   [] out = "raise" -> Crashed(sigs.error, sigs.crashed, e)
    /\ pkg_call' = [c EXCEPT !.tool = out,
                            !.stderr = IF out = "nonzero" THEN stderr ELSE "",
                            !.cause = IF out = "exit0" THEN "" ELSE out,
                            !.ret = IF out = "exit0" THEN "true" ELSE "false"]
    /\ packages' = <<>>
    /\ idx' = 0
    /\ package_info' = NoPackages
    /\ UNCHANGED <<pkg_python_path, is_running, pc, env_vars>>

\* install_package(package_name): --upgrade is appended unless the str
\* contains '=='.
install_package(package_name, out, stderr, e) ==
    RunPip([PkgCall("install", package_name) EXCEPT
                !.flags = IF has_version_pin(package_name)
                          THEN <<"-m", "pip", "install">>
                          ELSE <<"-m", "pip", "install", "--upgrade">>,
                !.target = package_name],
           [ok |-> "package_installed", error |-> "package_install_error",
            failed |-> "install failed: ", crashed |-> "install raised: "],
           out, stderr, e)

\* uninstall_package(package_name)
uninstall_package(package_name, out, stderr, e) ==
    RunPip([PkgCall("uninstall", package_name) EXCEPT
                !.flags = <<"-m", "pip", "uninstall", "-y">>,
                !.target = package_name],
           [ok |-> "package_uninstalled", error |-> "package_uninstall_error",
            failed |-> "uninstall failed: ", crashed |-> "uninstall raised: "],
           out, stderr, e)

\* upgrade_package(package_name)
upgrade_package(package_name, out, stderr, e) ==
    RunPip([PkgCall("upgrade", package_name) EXCEPT
                !.flags = <<"-m", "pip", "install", "--upgrade">>,
                !.target = package_name],
           [ok |-> "package_upgraded", error |-> "package_upgrade_error",
            failed |-> "upgrade failed: ", crashed |-> "upgrade raised: "],
           out, stderr, e)

Install ==
    \E spec \in InstallSpecs, out \in PipOutcomes, stderr \in Stderrs,
       e \in Exceptions : install_package(spec, out, stderr, e)

Uninstall ==
    \E name \in PackageNames, out \in PipOutcomes, stderr \in Stderrs,
       e \in Exceptions : uninstall_package(name, out, stderr, e)

Upgrade ==
    \E name \in PackageNames, out \in PipOutcomes, stderr \in Stderrs,
       e \in Exceptions : upgrade_package(name, out, stderr, e)

----------------------------------------------------------------------------
(* The package engine: load_packages and cancel.                            *)
(*                                                                         *)
(* load_packages runs in steps: pc is "list" while pip list runs, "loop" at *)
(* the top of the for loop, "show" while pip show runs for packages[idx+1], *)
(* "idle" once it has returned.  cancel can be called between any two       *)
(* steps.                                                                  *)

\* A load_packages without the finally clause.
Finally_nothing(evts) == evts

\* The finally clause: progress_updated.emit(100)
Finally(evts) == Append(evts, Progress(100))

\* A progress that counts the packages still to do.
package_progress_countdown(i, total_packages) ==
    25 + ((total_packages - i) * 75) \div total_packages

\* progress = 25 + int((i + 1) / total_packages * 75).  For
\* total_packages < 15 the float product truncates to the integer quotient.
package_progress(i, total_packages) == 25 + ((i + 1) * 75) \div total_packages

\* package_info[name] = {'version': ..., 'location': ..., 'install_time': ...}
package_record(pkg, show) ==
    [version |-> pkg.version,
     location |-> IF show.rc = "exit0" THEN Location ELSE "",
     install_time |-> IF show.rc = "exit0" /\ show.dir THEN CTime ELSE ""]

\* d[k] = v
Put(d, k, v) == [x \in DOMAIN d \cup {k} |-> IF x = k THEN v ELSE d[x]]

\* A loop that never looks at the flag.
Cancelled_unchecked == FALSE

\* if not self._is_running
Cancelled == ~is_running

\* A loop with package_loaded.emit indented into its body.
AfterPackage_emits_result(evts, i, total_packages) ==
    evts \o <<Progress(package_progress(i, total_packages)),
              Loaded(package_info)>>

\* What the for loop emits after a package: its progress.
AfterPackage(evts, i, total_packages) ==
    Append(evts, Progress(package_progress(i, total_packages)))

\* load_packages is entered: progress 0, pip list is started.
LoadStart ==
    /\ pc = "idle"
    /\ pkg_python_path # NoPath
    /\ pc' = "list"
    /\ events' = <<Progress(0)>>
    /\ packages' = <<>>
    /\ idx' = 0
    /\ package_info' = NoPackages
    /\ pkg_call' = [PkgCall("load", <<>>) EXCEPT
                       !.flags = <<"-m", "pip", "list", "--format=json">>,
                       !.cancelled = ~is_running]
    /\ UNCHANGED <<pkg_python_path, is_running, env_vars>>

\* pip list has ended: subprocess.run raised, or it exited nonzero, or its
\* output is not JSON, or it is the listing l.
LoadListed(out, stderr, e, parses, l) ==
    /\ pc = "list"
    /\ CASE out = "raise" ->
               /\ events' = Finally(Append(events,
                      Emitted("package_load_error", <<"load raised: ", e>>)))
               /\ pkg_call' = [pkg_call EXCEPT !.tool = out, !.cause = "list"]
               /\ pc' = "idle"
               /\ UNCHANGED packages
         [] out = "nonzero" ->
               /\ events' = Finally(events \o
                      <<Progress(25),
                        Emitted("package_load_error", <<"list failed: ", stderr>>)>>)
               /\ pkg_call' = [pkg_call EXCEPT !.tool = out, !.stderr = stderr,
                                              !.cause = "list"]
               /\ pc' = "idle"
               /\ UNCHANGED packages
         [] out = "exit0" /\ ~parses ->
               /\ events' = Finally(events \o
                      <<Progress(25),
                        Emitted("package_load_error", <<"list unparsable: ", e>>)>>)
               /\ pkg_call' = [pkg_call EXCEPT !.tool = out, !.cause = "parse"]
               /\ pc' = "idle"
               /\ UNCHANGED packages
         [] out = "exit0" /\ parses ->
               /\ events' = Append(events, Progress(25))
               /\ pkg_call' = [pkg_call EXCEPT !.tool = out]
               /\ pc' = "loop"
               /\ packages' = l
    /\ UNCHANGED <<pkg_python_path, is_running, idx, package_info, env_vars>>

LoadList ==
    \E out \in PipOutcomes, stderr \in Stderrs, e \in Exceptions,
       parses \in BOOLEAN, l \in Listings : LoadListed(out, stderr, e, parses, l)

\* The top of the for loop: the loop is over and the result is emitted, or
\* the flag is found cleared and load_packages returns, or pip show is
\* started for the next package.  The finally clause runs on every return.
LoadBoundary ==
    /\ pc = "loop"
    /\ IF idx = Len(packages)
       THEN /\ events' = Finally(Append(events, Loaded(package_info)))
            /\ pc' = "idle"
            /\ UNCHANGED pkg_call
       ELSE IF Cancelled
       THEN /\ events' = Finally(events)
            /\ pc' = "idle"
            /\ pkg_call' = [pkg_call EXCEPT !.cause = "cancel"]
       ELSE /\ pc' = "show"
            /\ UNCHANGED <<events, pkg_call>>
    /\ UNCHANGED <<pkg_python_path, is_running, packages, idx, package_info,
                   env_vars>>

\* pip show has ended for packages[idx+1]: subprocess.run raised and the
\* except clause reports it, or the package is recorded and its progress
\* emitted.
LoadShown(show, e) ==
    /\ pc = "show"
    /\ LET pkg == packages[idx + 1]
       IN  IF show.rc = "raise"
           THEN /\ events' = Finally(Append(events,
                       Emitted("package_load_error", <<"load raised: ", e>>)))
                /\ pkg_call' = [pkg_call EXCEPT !.cause = "show"]
                /\ pc' = "idle"
                /\ UNCHANGED <<idx, package_info>>
           ELSE /\ package_info' = Put(package_info, pkg.name,
                                        package_record(pkg, show))
                /\ events' = AfterPackage(events, idx, Len(packages))
                /\ idx' = idx + 1
                /\ pc' = "loop"
                /\ UNCHANGED pkg_call
    /\ UNCHANGED <<pkg_python_path, is_running, packages, env_vars>>

LoadShow == \E show \in ShowResults, e \in Exceptions : LoadShown(show, e)

\* cancel(): self._is_running = False.  It touches nothing else, whatever
\* load_packages is doing.
Cancel ==
    /\ pkg_python_path # NoPath
    /\ is_running' = FALSE
    /\ UNCHANGED <<pkg_python_path, pc, packages, idx, package_info, events,
                   pkg_call, env_vars>>

----------------------------------------------------------------------------
(* The package engine: check_updates.                                       *)
(*                                                                         *)
(* check_updates runs in steps like load_packages: pc is "check_list" while *)
(* pip list runs, "check_loop" at the top of the for loop, "check_index"    *)
(* while pip index versions runs for packages[idx+1].  It has no finally    *)
(* clause and does not read the cancel flag.                                *)

\* The version after LATEST: in the output of pip index versions <name>
Latest == "9.9.9"

\* pip index versions <name>: exit 0 or not, or subprocess.run raising;
\* latest: whether the output has a line with LATEST:
IndexResults ==
    {[rc |-> "exit0", latest |-> TRUE], [rc |-> "exit0", latest |-> FALSE],
     [rc |-> "nonzero", latest |-> FALSE], [rc |-> "raise", latest |-> FALSE]}

\* An except clause that passes.
CheckCrashed_silent(evts, e) == evts

\* except Exception as e: package_load_error.emit("... " + str(e))
CheckCrashed(evts, e) ==
    Append(evts, Emitted("package_load_error", <<"check raised: ", e>>))

\* progress = int((i + 1) / total_packages * 100).  For total_packages < 50
\* the float product truncates to the integer quotient.
check_progress(i, total_packages) == ((i + 1) * 100) \div total_packages

\* package_info[name] = {'version': ..., 'latest_version': ...,
\* 'location': pkg.get('location', ''), 'install_time': ''}; the listing of
\* pip list has no 'location'.
check_record(pkg, index) ==
    [version |-> pkg.version,
     latest_version |-> IF index.rc = "exit0" /\ index.latest THEN Latest ELSE "",
     location |-> "",
     install_time |-> ""]

\* check_updates is entered: progress 0, pip list is started.
CheckStart ==
    /\ pc = "idle"
    /\ pkg_python_path # NoPath
    /\ pc' = "check_list"
    /\ events' = <<Progress(0)>>
    /\ packages' = <<>>
    /\ idx' = 0
    /\ package_info' = NoPackages
    /\ pkg_call' = [PkgCall("check_updates", <<>>) EXCEPT
                       !.flags = <<"-m", "pip", "list", "--format=json">>]
    /\ UNCHANGED <<pkg_python_path, is_running, env_vars>>

\* pip list has ended: subprocess.run raised, or it exited nonzero, or
\* json.loads raised on its output (the outer except clause catches it), or
\* its output is the listing l.
CheckListed(out, stderr, e, parses, l) ==
    /\ pc = "check_list"
    /\ CASE out = "raise" ->
               /\ events' = CheckCrashed(events, e)
               /\ pkg_call' = [pkg_call EXCEPT !.tool = out, !.cause = "list"]
               /\ pc' = "idle"
               /\ UNCHANGED packages
         [] out = "nonzero" ->
               /\ events' = Append(events,
                      Emitted("package_load_error", <<"list failed: ", stderr>>))
               /\ pkg_call' = [pkg_call EXCEPT !.tool = out, !.stderr = stderr,
                                              !.cause = "list"]
               /\ pc' = "idle"
               /\ UNCHANGED packages
         [] out = "exit0" /\ ~parses ->
               /\ events' = CheckCrashed(events, e)
               /\ pkg_call' = [pkg_call EXCEPT !.tool = out, !.cause = "parse"]
               /\ pc' = "idle"
               /\ UNCHANGED packages
         [] out = "exit0" /\ parses ->
               /\ pkg_call' = [pkg_call EXCEPT !.tool = out]
               /\ pc' = "check_loop"
               /\ packages' = l
               /\ UNCHANGED events
    /\ UNCHANGED <<pkg_python_path, is_running, idx, package_info, env_vars>>

CheckList ==
    \E out \in PipOutcomes, stderr \in Stderrs, e \in Exceptions,
       parses \in BOOLEAN, l \in Listings : CheckListed(out, stderr, e, parses, l)

\* The top of the for loop: the loop is over and the result is emitted, or
\* pip index versions is started for the next package.
CheckBoundary ==
    /\ pc = "check_loop"
    /\ IF idx = Len(packages)
       THEN /\ events' = Append(events, Loaded(package_info))
            /\ pc' = "idle"
       ELSE /\ pc' = "check_index"
            /\ UNCHANGED events
    /\ UNCHANGED <<pkg_python_path, is_running, packages, idx, package_info,
                   pkg_call, env_vars>>

\* pip index versions has ended for packages[idx+1]: subprocess.run raised
\* and the except clause reports it, or the package is recorded and its
\* progress emitted.
CheckIndexed(index, e) ==
    /\ pc = "check_index"
    /\ LET pkg == packages[idx + 1]
       IN  IF index.rc = "raise"
           THEN /\ events' = CheckCrashed(events, e)
                /\ pkg_call' = [pkg_call EXCEPT !.cause = "index"]
                /\ pc' = "idle"
                /\ UNCHANGED <<idx, package_info>>
           ELSE /\ package_info' = Put(package_info, pkg.name,
                                        check_record(pkg, index))
                /\ events' = Append(events,
                                    Progress(check_progress(idx, Len(packages))))
                /\ idx' = idx + 1
                /\ pc' = "check_loop"
                /\ UNCHANGED pkg_call
    /\ UNCHANGED <<pkg_python_path, is_running, packages, env_vars>>

CheckIndex == \E index \in IndexResults, e \in Exceptions : CheckIndexed(index, e)

----------------------------------------------------------------------------
(* The package engine's specification.                                      *)

PkgInit ==
    /\ os_name = "posix"
    /\ envs_json = NoFile
    /\ envs = EmptyEnvs
    /\ dirs = {}
    /\ files = {GoodPython}
    /\ nops = 0
    /\ last = Call("init", "")
    /\ NoEngine
    /\ GuiIdle
    /\ NoMirrorManager
    /\ NoConfigManager

PkgNext ==
    \/ ConstructEngine /\ UNCHANGED <<gui_vars, mirror_vars, cfg_vars>>
    \/ Install /\ UNCHANGED <<gui_vars, mirror_vars, cfg_vars>>
    \/ Uninstall /\ UNCHANGED <<gui_vars, mirror_vars, cfg_vars>>
    \/ Upgrade /\ UNCHANGED <<gui_vars, mirror_vars, cfg_vars>>
    \/ LoadStart /\ UNCHANGED <<gui_vars, mirror_vars, cfg_vars>>
    \/ LoadList /\ UNCHANGED <<gui_vars, mirror_vars, cfg_vars>>
    \/ LoadBoundary /\ UNCHANGED <<gui_vars, mirror_vars, cfg_vars>>
    \/ LoadShow /\ UNCHANGED <<gui_vars, mirror_vars, cfg_vars>>
    \/ CheckStart /\ UNCHANGED <<gui_vars, mirror_vars, cfg_vars>>
    \/ CheckList /\ UNCHANGED <<gui_vars, mirror_vars, cfg_vars>>
    \/ CheckBoundary /\ UNCHANGED <<gui_vars, mirror_vars, cfg_vars>>
    \/ CheckIndex /\ UNCHANGED <<gui_vars, mirror_vars, cfg_vars>>
    \/ Cancel /\ UNCHANGED <<gui_vars, mirror_vars, cfg_vars>>

PkgSpec == PkgInit /\ [][PkgNext]_vars

----------------------------------------------------------------------------
(* The package engine: properties.                                          *)

\* The signal an operation emits when it succeeded, and when it failed.
SuccessSignal(op) ==
    CASE op = "install" -> "package_installed"
      [] op = "uninstall" -> "package_uninstalled"
      [] op = "upgrade" -> "package_upgraded"
      [] OTHER -> "package_loaded"

ErrorSignal(op) ==
    CASE op = "install" -> "package_install_error"
      [] op = "uninstall" -> "package_uninstall_error"
      [] op = "upgrade" -> "package_upgrade_error"
      [] OTHER -> "package_load_error"

TerminalSignals ==
    {SuccessSignal(op) : op \in {"install", "uninstall", "upgrade", "load"}}
        \cup {ErrorSignal(op) : op \in {"install", "uninstall", "upgrade", "load"}}

Modifying == {"install", "uninstall", "upgrade"}

\* The positions of evts that hold one of the signals sigs.
Positions(evts, sigs) == {i \in DOMAIN evts : evts[i].sig \in sigs}

\* The values of the progress signals of evts, in order.
RECURSIVE ProgressValues(_)
ProgressValues(evts) ==
    IF evts = <<>> THEN <<>>
    ELSE IF Head(evts).sig = "progress_updated"
         THEN <<Head(evts).n>> \o ProgressValues(Tail(evts))
         ELSE ProgressValues(Tail(evts))

\* A spec of the form name==version.
ExactPin(spec) == Len(spec) = 3 /\ spec[2] = "=="

\* C11: constructing a package engine raises whenever the interpreter path
\* does not exist or the interpreter's version query does not exit with
\* status 0, and then no engine becomes usable (the engine in use, if any,
\* stays); it returns, bound to the path, only for an existing interpreter
\* whose version query exits with status 0.
C11_ConstructorValidates ==
    [][pkg_call'.op = "construct" =>
          LET c == pkg_call'
          IN  /\ c.raised <=> ~(PathExists(c.arg) /\ c.tool = "exit0")
              /\ ~c.raised => pkg_python_path' = c.arg
              /\ (c.raised /\ pkg_call' # pkg_call)
                    => UNCHANGED <<pkg_python_path, is_running>>]_vars

\* The constructor raised for an interpreter that exists and whose version
\* query exited nonzero; the engine constructed before is still in use.
C11_Witness ==
    /\ pkg_call.op = "construct"
    /\ pkg_call.arg = GoodPython
    /\ pkg_call.tool = "nonzero"
    /\ pkg_call.raised
    /\ pkg_python_path = GoodPython

\* C14: each install, uninstall and upgrade emits exactly one terminal
\* signal, its success signal or its error signal and never both, on every
\* path: exit 0, nonzero exit, and subprocess.run raising.
C14_OneTerminalEvent ==
    pkg_call.op \in Modifying =>
        /\ Cardinality(Positions(events, TerminalSignals)) = 1
        /\ Positions(events, TerminalSignals)
              = Positions(events, {SuccessSignal(pkg_call.op),
                                   ErrorSignal(pkg_call.op)})

\* An install whose subprocess.run raised emitted the error signal once.
C14_Witness ==
    /\ pkg_call.op = "install"
    /\ pkg_call.tool = "raise"
    /\ Positions(events, {"package_install_error"}) = {2}
    /\ Len(events) = 2

\* C15: when the tool exits 0 the operation emits its success signal
\* carrying the argument it was given, unchanged, and returns True; when the
\* tool exits nonzero it emits its error signal carrying the tool's stderr
\* text and returns False.
C15_ExitCodeDecides ==
    pkg_call.op \in Modifying =>
        /\ pkg_call.tool = "exit0" =>
              /\ \E i \in DOMAIN events :
                    events[i] = Emitted(SuccessSignal(pkg_call.op), pkg_call.arg)
              /\ pkg_call.ret = "true"
        /\ pkg_call.tool = "nonzero" =>
              /\ \E i \in DOMAIN events :
                    /\ events[i].sig = ErrorSignal(pkg_call.op)
                    /\ pkg_call.stderr \in Range(events[i].text)
              /\ pkg_call.ret = "false"

\* An install of a pinned spec exited 0 and package_installed carries the
\* spec with its pin.
C15_Witness ==
    /\ pkg_call.op = "install"
    /\ pkg_call.arg = <<"requests", "==", "2.31.0">>
    /\ pkg_call.tool = "exit0"
    /\ events[3] = Emitted("package_installed", <<"requests", "==", "2.31.0">>)
    /\ pkg_call.ret = "true"

Returned == pkg_call.op = "load" /\ pc = "idle"

\* C12 as stated: within one load the progress values emitted are strictly
\* increasing, whatever the number of packages.
C12_ProgressStrictlyIncreasing ==
    pkg_call.op = "load" =>
        LET pv == ProgressValues(events)
        IN  \A i, j \in DOMAIN pv : i < j => pv[i] < pv[j]

\* C12: within one load, whatever the number of packages, the progress
\* values emitted never decrease and lie between 0 and 100; they start at 0.
C12_ProgressNeverDecreases ==
    pkg_call.op = "load" =>
        LET pv == ProgressValues(events)
        IN  /\ pv # <<>> /\ pv[1] = 0
            /\ \A i \in DOMAIN pv : pv[i] \in 0..100
            /\ \A i, j \in DOMAIN pv : i < j => pv[i] <= pv[j]

\* A load over three packages has returned its result: the progress went
\* 0, 25, 50, 75, 100, 100.
C12_Witness ==
    /\ Returned
    /\ Len(packages) = 3
    /\ ProgressValues(events) = <<0, 25, 50, 75, 100, 100>>
    /\ Positions(events, {"package_loaded"}) = {6}

\* C13 as stated: the result signal is emitted at most once and no progress
\* signal is emitted after it.
C13_NoProgressAfterResult ==
    pkg_call.op = "load" =>
        /\ Cardinality(Positions(events, {"package_loaded"})) <= 1
        /\ \A i \in Positions(events, {"package_loaded"}) :
              \A j \in DOMAIN events : j > i => events[j].sig # "progress_updated"

\* C13: within one load the result signal is emitted at most once, after
\* the progress of the listing and of every package and after no error
\* signal; what follows it is the progress 100 of the finally clause and
\* nothing else.
C13_ResultOnceThenFinal100 ==
    pkg_call.op = "load" =>
        /\ Cardinality(Positions(events, {"package_loaded"})) <= 1
        /\ \A i \in Positions(events, {"package_loaded"}) :
              /\ \A j \in 1..(i - 1) : events[j].sig = "progress_updated"
              /\ Len(ProgressValues(SubSeq(events, 1, i))) = Len(packages) + 2
              /\ Len(events) = i + 1
              /\ events[i + 1] = Progress(100)

\* A load over two packages has emitted its result, then progress 100.
C13_Witness ==
    /\ Returned
    /\ Len(packages) = 2
    /\ Len(events) = 6
    /\ events[5].sig = "package_loaded"
    /\ events[6] = Progress(100)

\* C20: a load whose listing holds zero packages emits the result signal
\* with an empty dict and no error signal, and the last progress value it
\* emits is 100.
C20_EmptyListing ==
    (Returned /\ pkg_call.tool = "exit0" /\ pkg_call.cause = "" /\ packages = <<>>)
        => /\ \E i \in DOMAIN events : events[i] = Loaded(NoPackages)
           /\ Positions(events, {"package_load_error"}) = {}
           /\ LET pv == ProgressValues(events) IN pv[Len(pv)] = 100

\* A load over the empty listing has returned.
C20_Witness ==
    /\ Returned
    /\ pkg_call.tool = "exit0"
    /\ pkg_call.cause = ""
    /\ packages = <<>>
    /\ events = <<Progress(0), Progress(25), Loaded(NoPackages), Progress(100)>>

\* C17 as stated: a load that returns with the flag cleared (cancel was
\* called before it returned) emits neither the result signal nor an error
\* signal.
C17_CancelledLoadEmitsNothing ==
    [][(pkg_call.op = "load" /\ pc # "idle" /\ pc' = "idle" /\ ~is_running)
          => Positions(events', {"package_loaded", "package_load_error"}) = {}]_vars

\* C17: a pip show is started only while the flag is set; a load that finds
\* the flag cleared at the top of the loop, with a package still to look up,
\* returns at once, emitting the progress 100 of the finally clause and
\* neither the result nor an error; cancel changes nothing of a load but the
\* flag, and a lookup in flight when cancel is called still records its
\* package.
C17_CancelAtBoundary ==
    [][/\ (pc # "show" /\ pc' = "show") => is_running
       /\ (pc = "loop" /\ pc' # "loop" /\ idx < Len(packages) /\ ~is_running)
             => /\ pc' = "idle"
                /\ events' = Append(events, Progress(100))
                /\ Positions(events', {"package_loaded", "package_load_error"}) = {}
                /\ UNCHANGED <<idx, package_info>>
       /\ (is_running /\ ~is_running')
             => UNCHANGED <<pc, packages, idx, package_info, events>>
       /\ (pc = "show" /\ pc' = "loop")
             => /\ idx' = idx + 1
                /\ packages[idx + 1].name \in DOMAIN package_info']_vars

\* A load over two packages found the flag cleared after the first package:
\* it returned with the progress 0, 25, 62, 100 and no other signal.
C17_Witness ==
    /\ Returned
    /\ ~is_running
    /\ pkg_call.cause = "cancel"
    /\ Len(packages) = 2
    /\ idx = 1
    /\ events = <<Progress(0), Progress(25), Progress(62), Progress(100)>>

\* C18 as stated: in the result of a load, a package that another package of
\* the result declares as a requirement has that package as its parent, and
\* a package that none requires has no parent.
C18_ResultLinksDependencies ==
    \A i \in Positions(events, {"package_loaded"}) :
        LET info == events[i].info
            Requiring(b) == {a \in DOMAIN info : b \in Range(Requires(a))}
        IN  \A b \in DOMAIN info :
                IF Requiring(b) # {}
                THEN /\ "parent" \in DOMAIN info[b]
                     /\ info[b].parent \in Requiring(b)
                ELSE "parent" \notin DOMAIN info[b]

\* C19 as stated: no record of the result of a load has an empty name or an
\* empty version.
C19_NoEmptyNameOrVersion ==
    \A i \in Positions(events, {"package_loaded"}) :
        \A name \in DOMAIN events[i].info :
            name # "" /\ events[i].info[name].version # ""

\* The operations of a constructed engine that run a tool.
EngineOps == Modifying \cup {"load", "check_updates"}

\* The last operation has returned after an exception: subprocess.run raised
\* for its command, for a package's pip show or pip index versions, or
\* json.loads raised on the listing.
EndedByException ==
    /\ pc = "idle"
    /\ pkg_call.tool = "raise" \/ pkg_call.cause \in {"parse", "show", "index"}

\* C21: after construction no operation of the engine raises to its caller;
\* when a tool invocation or the parsing of its output raises, the operation
\* returns having emitted its error signal (package_load_error for load and
\* check_updates) and not its success signal, and install, uninstall and
\* upgrade return False.
C21_NoOperationRaises ==
    pkg_call.op \in EngineOps =>
        /\ ~pkg_call.raised
        /\ EndedByException =>
              /\ Cardinality(Positions(events, {ErrorSignal(pkg_call.op)})) = 1
              /\ Positions(events, {SuccessSignal(pkg_call.op)}) = {}
              /\ pkg_call.op \in Modifying => pkg_call.ret = "false"

\* check_updates got a listing that is not JSON: json.loads raised, the
\* outer except clause emitted package_load_error, check_updates returned.
C21_Witness ==
    /\ pkg_call.op = "check_updates"
    /\ pkg_call.cause = "parse"
    /\ ~pkg_call.raised
    /\ pc = "idle"
    /\ Len(events) = 2
    /\ events[2].sig = "package_load_error"

----------------------------------------------------------------------------
(* The GUI thread.                                                          *)
(*                                                                         *)
(* MainWindow calls the engine from slots that run on the GUI thread, and   *)
(* the engine's signals are connected directly, so a slot runs inside the   *)
(* emit.  gui_stack holds the calls the thread is in.  A frame is at        *)
(* "start" before subprocess.run, at "wait" inside it, at "emit" when its   *)
(* success signal is emitted, at "loop" at the top of a for loop, at "done" *)
(* when what is left is to return.  in_flight holds the tools that were     *)
(* started and have not exited, whoever started them.                       *)

\* A requirements file handed to import_requirements names at most MaxReqs
\* packages.
MaxReqs == 2

\* fn: the function; at: where it stands; tool: the command it runs next or
\* is running; left: the iterations its loop still has to do; out: how the
\* command it waits for ended, "none" while it has not.
Frame(fn, at, tool, left) ==
    [fn |-> fn, at |-> at, tool |-> tool, left |-> left, out |-> "none"]

\* The slots of MainWindow that call into the engine.
GuiEntries ==
    {"on_env_changed", "install", "uninstall", "upgrade", "load",
     "check_updates", "import_requirements"}

\* The frame a call of fn starts with.
Entered(fn, k) ==
    CASE fn = "on_env_changed" -> Frame(fn, "start", "version", 0)
      [] fn \in {"install", "uninstall", "upgrade"} -> Frame(fn, "start", fn, 0)
      [] fn \in {"load", "check_updates"} -> Frame(fn, "start", "list", 0)
      [] fn = "import_requirements" -> Frame(fn, "loop", "none", k)

Top == gui_stack[Len(gui_stack)]

Popped == SubSeq(gui_stack, 1, Len(gui_stack) - 1)

SetTop(frame) == [gui_stack EXCEPT ![Len(gui_stack)] = frame]

pkg_rest == <<is_running, pc, packages, idx, package_info, events, pkg_call>>

\* A subprocess call that does not wait for the command (Popen).
Exited_unchecked(frame) == TRUE

\* subprocess.run returns once the command has exited (or could not be
\* started).
Exited(frame) == frame.out # "none"

\* The user triggers a slot; the event loop runs it when the thread is in no
\* other call.  Without an engine every slot but on_env_changed returns at
\* once.
UserCalls(fn, k) ==
    /\ gui_stack = <<>>
    /\ fn # "on_env_changed" => pkg_python_path # NoPath
    /\ gui_stack' = <<Entered(fn, k)>>
    /\ UNCHANGED <<in_flight, pkg_python_path>>

\* subprocess.run starts the command, or raises without starting it.
StartTool(spawned) ==
    /\ gui_stack # <<>>
    /\ Top.at = "start"
    /\ IF spawned
       THEN /\ in_flight' = Append(in_flight, Top.tool)
            /\ gui_stack' = SetTop([Top EXCEPT !.at = "wait", !.out = "none"])
       ELSE /\ gui_stack' = SetTop([Top EXCEPT !.at = "wait", !.out = "raise"])
            /\ UNCHANGED in_flight
    /\ UNCHANGED pkg_python_path

\* A command that runs exits, with status 0 or not.
ToolExits(i, out) ==
    /\ i \in DOMAIN in_flight
    /\ in_flight' = SubSeq(in_flight, 1, i - 1)
                       \o SubSeq(in_flight, i + 1, Len(in_flight))
    /\ IF gui_stack # <<>> /\ Top.at = "wait" /\ Top.out = "none"
       THEN gui_stack' = SetTop([Top EXCEPT !.out = out])
       ELSE UNCHANGED gui_stack
    /\ UNCHANGED pkg_python_path

\* subprocess.run returns into the function that called it.  n is the
\* number of packages of a listing, parses whether json.loads accepts it.
RunReturns(n, parses) ==
    /\ gui_stack # <<>>
    /\ Top.at = "wait"
    /\ Exited(Top)
    /\ LET failed == Top.out \in {"nonzero", "raise"}
       IN  CASE Top.fn = "on_env_changed" ->
                   \* PackageManager.__init__: ValueError leaves the slot
                   /\ gui_stack' = IF failed THEN Popped
                                   ELSE SetTop([Top EXCEPT !.at = "emit"])
                   /\ pkg_python_path' = IF failed THEN pkg_python_path
                                         ELSE GoodPython
             [] Top.fn \in {"install", "uninstall", "upgrade"} ->
                   /\ gui_stack' = IF failed THEN Popped
                                   ELSE SetTop([Top EXCEPT !.at = "emit"])
                   /\ UNCHANGED pkg_python_path
             [] Top.fn \in {"load", "check_updates"} /\ Top.tool = "list" ->
                   /\ gui_stack' = IF failed \/ ~parses THEN Popped
                                   ELSE SetTop([Top EXCEPT !.at = "loop",
                                                           !.left = n])
                   /\ UNCHANGED pkg_python_path
             [] Top.fn \in {"load", "check_updates"} /\ Top.tool # "list" ->
                   /\ gui_stack' = IF Top.out = "raise" THEN Popped
                                   ELSE SetTop([Top EXCEPT !.at = "loop",
                                                           !.left = Top.left - 1])
                   /\ UNCHANGED pkg_python_path
    /\ UNCHANGED in_flight

\* The success signal is emitted and its slot (on_package_installed,
\* on_package_uninstalled, on_package_upgraded) calls load_packages; after a
\* construction on_env_changed calls load_packages itself.
Emit ==
    /\ gui_stack # <<>>
    /\ Top.at = "emit"
    /\ gui_stack' = Append(SetTop([Top EXCEPT !.at = "done"]), Entered("load", 0))
    /\ UNCHANGED <<in_flight, pkg_python_path>>

\* The top of a for loop: of load_packages and check_updates over the
\* packages (load_packages returns when it finds the flag cleared), of
\* import_requirements over the lines, which calls load_packages after it.
LoopHead(cancelled) ==
    /\ gui_stack # <<>>
    /\ Top.at = "loop"
    /\ CASE Top.fn = "import_requirements" ->
               gui_stack' =
                   IF Top.left > 0
                   THEN Append(SetTop([Top EXCEPT !.left = Top.left - 1]),
                               Entered("install", 0))
                   ELSE Append(SetTop([Top EXCEPT !.at = "done"]),
                               Entered("load", 0))
         [] Top.fn = "load" ->
               gui_stack' =
                   IF Top.left = 0 \/ cancelled THEN Popped
                   ELSE SetTop([Top EXCEPT !.at = "start", !.tool = "show"])
         [] Top.fn = "check_updates" ->
               gui_stack' =
                   IF Top.left = 0 THEN Popped
                   ELSE SetTop([Top EXCEPT !.at = "start", !.tool = "index"])
    /\ UNCHANGED <<in_flight, pkg_python_path>>

\* The function returns.
Return ==
    /\ gui_stack # <<>>
    /\ Top.at = "done"
    /\ gui_stack' = Popped
    /\ UNCHANGED <<in_flight, pkg_python_path>>

GuiInit ==
    /\ os_name = "posix"
    /\ envs_json = NoFile
    /\ envs = EmptyEnvs
    /\ dirs = {}
    /\ files = {GoodPython}
    /\ nops = 0
    /\ last = Call("init", "")
    /\ NoEngine
    /\ GuiIdle
    /\ NoMirrorManager
    /\ NoConfigManager

GuiNext ==
    \/ (\E fn \in GuiEntries, k \in 1..MaxReqs : UserCalls(fn, k))
          /\ UNCHANGED <<env_vars, pkg_rest, mirror_vars, cfg_vars>>
    \/ (\E spawned \in BOOLEAN : StartTool(spawned))
          /\ UNCHANGED <<env_vars, pkg_rest, mirror_vars, cfg_vars>>
    \/ (\E i \in 1..2, out \in {"exit0", "nonzero"} : ToolExits(i, out))
          /\ UNCHANGED <<env_vars, pkg_rest, mirror_vars, cfg_vars>>
    \/ (\E n \in 0..MaxPkgs, parses \in BOOLEAN : RunReturns(n, parses))
          /\ UNCHANGED <<env_vars, pkg_rest, mirror_vars, cfg_vars>>
    \/ Emit /\ UNCHANGED <<env_vars, pkg_rest, mirror_vars, cfg_vars>>
    \/ (\E cancelled \in BOOLEAN : LoopHead(cancelled))
          /\ UNCHANGED <<env_vars, pkg_rest, mirror_vars, cfg_vars>>
    \/ Return /\ UNCHANGED <<env_vars, pkg_rest, mirror_vars, cfg_vars>>

GuiSpec == GuiInit /\ [][GuiNext]_vars

\* C22: at no time are two tool invocations in flight: a tool is started
\* only when none runs, and while one runs the innermost call of the GUI
\* thread is the subprocess.run that waits for it; this holds for the
\* load_packages that the success slots start inside install, uninstall and
\* upgrade, and inside import_requirements.
C22_OneInvocationAtATime ==
    /\ Len(in_flight) <= 1
    /\ in_flight # <<>> =>
          /\ gui_stack # <<>>
          /\ Top.at = "wait"
          /\ Top.out = "none"
          /\ in_flight = <<Top.tool>>

\* import_requirements is in an install whose success slot reloads the
\* list: pip list runs and nothing else.
C22_Witness ==
    /\ Len(gui_stack) = 3
    /\ gui_stack[1].fn = "import_requirements"
    /\ gui_stack[2].fn = "install"
    /\ gui_stack[2].at = "done"
    /\ gui_stack[3].fn = "load"
    /\ in_flight = <<"list">>

----------------------------------------------------------------------------
(* The mirror registry: bounds, constants and inputs.                       *)
(*                                                                         *)
(* MirrorManager.mirrors is a dict; the model keeps it as the sequence of   *)
(* its (name, url) items in the order of the dict, which is the order of    *)
(* insertion and the order json.dump writes and json.load reads.  The       *)
(* Chinese names of the source are written in Latin letters.                *)

\* At most MaxMirrorOps mirror operations are called after the construction.
MaxMirrorOps == 3

OFFICIAL_MIRROR == Mirror("PyPI", <<"https://", "pypi.org/simple">>)

DEFAULT_MIRRORS ==
    <<Mirror("Tsinghua", <<"https://", "pypi.tuna.tsinghua.edu.cn/simple">>),
      Mirror("Aliyun", <<"https://", "mirrors.aliyun.com/pypi/simple">>),
      Mirror("Huawei", <<"https://", "repo.huaweicloud.com/repository/pypi/simple">>),
      Mirror("USTC", <<"https://", "pypi.mirrors.ustc.edu.cn/simple">>),
      Mirror("Douban", <<"https://", "pypi.doubanio.com/simple">>)>>

\* The names handed to add_mirror: a new name, the official mirror's name, a
\* default mirror's name.
AddNames == {"X", "PyPI", "Tsinghua"}

\* The urls handed to add_mirror.
AddUrls == {<<"https://", "host">>, <<"http://", "host">>, <<"ftp://", "host">>}

\* The names handed to remove_mirror and set_current_mirror.
PickNames == {"X", "PyPI", "Tsinghua", "Aliyun", "nonexistent"}

\* name in d
Has(d, name) == \E i \in DOMAIN d : d[i].name = name

\* d[name]
UrlOf(d, name) == d[CHOOSE i \in DOMAIN d : d[i].name = name].url

\* A removal that clears the map.
Del_all(d, name) == <<>>

\* del d[name]
Del(d, name) == SelectSeq(d, LAMBDA m : m.name # name)

\* The documents config_file can hold when a MirrorManager is constructed:
\* none, one that is not JSON, one with no mirrors, and documents with one
\* user mirror whose 'current' is that mirror, the official mirror, a name
\* that is not registered, or missing.
InitialMirrorDocs ==
    LET one == <<Mirror("X", <<"https://", "host">>)>>
    IN  {NoMirrorsFile, CorruptMirrors,
         MirrorsDoc(<<>>, ""), MirrorsDoc(<<>>, "PyPI"),
         MirrorsDoc(one, "X"), MirrorsDoc(one, "PyPI"),
         MirrorsDoc(one, "gone"), MirrorsDoc(one, "")}

----------------------------------------------------------------------------
(* The mirror registry: the operations.                                     *)

\* A reset that selects the official mirror.
DefaultCurrent_official == OFFICIAL_MIRROR

\* ("清华大学", self.mirrors["清华大学"]) after self.mirrors was set to the
\* defaults
DefaultCurrent == Mirror("Tsinghua", UrlOf(DEFAULT_MIRRORS, "Tsinghua"))

\* save_mirrors() when the mirrors are d, the current mirror is current and
\* config_file holds doc: the document after it.  Every exception is caught
\* and logged: when open fails the document stays, when json.dump fails the
\* file was truncated by open and is no JSON.
save_mirrors(d, current, save, doc) ==
    CASE save = "ok" -> MirrorsDoc(d, current.name)
      [] save = "open_fails" -> doc
      [] save = "write_fails" -> CorruptMirrors

\* A load_mirrors without the block of lines 52-56: it keeps the mirrors
\* of the document, also when there are none.
load_mirrors_as_read(d, current, doc) ==
    IF doc.kind = "corrupt"
    THEN [mirrors |-> DEFAULT_MIRRORS,
          current |-> Mirror("Tsinghua", UrlOf(DEFAULT_MIRRORS, "Tsinghua")),
          saves |-> TRUE]
    ELSE IF doc.kind = "absent"
    THEN [mirrors |-> d, current |-> current, saves |-> FALSE]
    ELSE [mirrors |-> doc.mirrors,
          current |-> IF doc.current = OFFICIAL_MIRROR.name THEN OFFICIAL_MIRROR
                      ELSE IF doc.current # "" /\ Has(doc.mirrors, doc.current)
                      THEN Mirror(doc.current, UrlOf(doc.mirrors, doc.current))
                      ELSE current,
          saves |-> FALSE]

\* load_mirrors() on a manager whose mirrors are d and whose current mirror
\* is current, reading the document doc: the mirrors and the current mirror
\* after it, and whether it calls save_mirrors.
load_mirrors(d, current, doc) ==
    LET read == IF doc.kind = "json" THEN doc.mirrors ELSE d
        resolved ==
            IF doc.kind # "json" THEN current
            ELSE IF doc.current = OFFICIAL_MIRROR.name THEN OFFICIAL_MIRROR
            ELSE IF doc.current # "" /\ Has(read, doc.current)
                 THEN Mirror(doc.current, UrlOf(read, doc.current))
            ELSE current
    IN  IF doc.kind = "corrupt"
        THEN [mirrors |-> DEFAULT_MIRRORS, current |-> DefaultCurrent,
              saves |-> TRUE]
        ELSE IF read = <<>>
        THEN [mirrors |-> DEFAULT_MIRRORS,
              current |-> IF resolved = NoMirror THEN DefaultCurrent
                          ELSE resolved,
              saves |-> TRUE]
        ELSE [mirrors |-> read, current |-> resolved, saves |-> FALSE]

\* An add_mirror that takes every url.
valid_url_any(url) == TRUE

\* url.startswith(('http://', 'https://'))
valid_url(url) == url # <<>> /\ Head(url) \in {"http://", "https://"}

\* add_mirror(name, url)
add_mirror(name, url, save) ==
    /\ mirror_nops < MaxMirrorOps
    /\ mirror_nops' = mirror_nops + 1
    /\ LET c == [MirrorCall("add", name, url) EXCEPT !.prev = mirror_call.op]
       IN  IF Has(mirrors, name)
           THEN /\ mirror_call' = [c EXCEPT !.signals =
                       <<Signal("operation_error", <<"exists: ", name>>)>>]
                /\ UNCHANGED <<mirrors, current_mirror, mirrors_json>>
           ELSE IF ~valid_url(url)
           THEN /\ mirror_call' = [c EXCEPT !.signals =
                       <<Signal("operation_error", <<"url must start with http:// or https://">>)>>]
                /\ UNCHANGED <<mirrors, current_mirror, mirrors_json>>
           ELSE /\ mirrors' = Append(mirrors, Mirror(name, url))
                /\ mirrors_json' = save_mirrors(mirrors', current_mirror, save, mirrors_json)
                /\ mirror_call' = [c EXCEPT !.ok = TRUE, !.saved = TRUE,
                       !.signals = <<Signal("mirror_added", <<name>>)>>]
                /\ UNCHANGED current_mirror

\* remove_mirror(name)
remove_mirror(name, save) ==
    /\ mirror_nops < MaxMirrorOps
    /\ mirror_nops' = mirror_nops + 1
    /\ LET c == [MirrorCall("remove", name, <<>>) EXCEPT !.prev = mirror_call.op]
       IN  IF ~Has(mirrors, name)
           THEN /\ mirror_call' = [c EXCEPT !.signals =
                       <<Signal("operation_error", <<"not found: ", name>>)>>]
                /\ UNCHANGED <<mirrors, current_mirror, mirrors_json>>
           ELSE /\ mirrors' = Del(mirrors, name)
                /\ mirrors_json' = save_mirrors(mirrors', current_mirror, save, mirrors_json)
                /\ mirror_call' = [c EXCEPT !.ok = TRUE, !.saved = TRUE,
                       !.signals = <<Signal("mirror_removed", <<name>>)>>]
                /\ UNCHANGED current_mirror

\* A listing of the user mirrors alone.
get_mirror_list_users == mirrors

\* get_mirror_list()
get_mirror_list == <<OFFICIAL_MIRROR>> \o mirrors

\* A set_current_mirror without the branch of the official name (lines
\* 190-194): only registered names can be selected.
set_current_mirror_registered_only(name, save) ==
    /\ mirror_nops < MaxMirrorOps
    /\ mirror_nops' = mirror_nops + 1
    /\ LET c == [MirrorCall("set_current", name, <<>>) EXCEPT
                    !.prev = mirror_call.op]
       IN  IF ~Has(mirrors, name)
           THEN /\ mirror_call' = [c EXCEPT !.signals =
                       <<Signal("operation_error", <<"not found: ", name>>)>>]
                /\ UNCHANGED <<mirrors, current_mirror, mirrors_json>>
           ELSE /\ current_mirror' = Mirror(name, UrlOf(mirrors, name))
                /\ mirrors_json' = save_mirrors(mirrors, current_mirror', save, mirrors_json)
                /\ mirror_call' = [c EXCEPT !.ok = TRUE, !.saved = TRUE,
                       !.signals = <<Signal("mirror_changed",
                                            <<name>> \o UrlOf(mirrors, name))>>]
                /\ UNCHANGED mirrors

\* set_current_mirror(name)
set_current_mirror(name, save) ==
    /\ mirror_nops < MaxMirrorOps
    /\ mirror_nops' = mirror_nops + 1
    /\ LET c == [MirrorCall("set_current", name, <<>>) EXCEPT
                    !.prev = mirror_call.op]
       IN  IF name = OFFICIAL_MIRROR.name
           THEN /\ current_mirror' = OFFICIAL_MIRROR
                /\ mirrors_json' = save_mirrors(mirrors, current_mirror', save, mirrors_json)
                /\ mirror_call' = [c EXCEPT !.ok = TRUE, !.saved = TRUE,
                       !.signals = <<Signal("mirror_changed",
                                            <<name>> \o OFFICIAL_MIRROR.url)>>]
                /\ UNCHANGED mirrors
           ELSE IF ~Has(mirrors, name)
           THEN /\ mirror_call' = [c EXCEPT !.signals =
                       <<Signal("operation_error", <<"not found: ", name>>)>>]
                /\ UNCHANGED <<mirrors, current_mirror, mirrors_json>>
           ELSE /\ current_mirror' = Mirror(name, UrlOf(mirrors, name))
                /\ mirrors_json' = save_mirrors(mirrors, current_mirror', save, mirrors_json)
                /\ mirror_call' = [c EXCEPT !.ok = TRUE, !.saved = TRUE,
                       !.signals = <<Signal("mirror_changed",
                                            <<name>> \o UrlOf(mirrors, name))>>]
                /\ UNCHANGED mirrors

\* reset_to_default()
reset_to_default(save) ==
    /\ mirror_nops < MaxMirrorOps
    /\ mirror_nops' = mirror_nops + 1
    /\ mirrors' = DEFAULT_MIRRORS
    /\ current_mirror' = DefaultCurrent
    /\ mirrors_json' = save_mirrors(mirrors', current_mirror', save, mirrors_json)
    /\ mirror_call' = [MirrorCall("reset", "", <<>>) EXCEPT
                          !.ok = TRUE, !.saved = TRUE, !.prev = mirror_call.op]

\* The application is started again: MirrorManager(config_file) starts from
\* no mirrors and no current mirror and calls load_mirrors.
LoadMirrors(save) ==
    /\ mirror_nops < MaxMirrorOps
    /\ mirror_nops' = mirror_nops + 1
    /\ LET l == load_mirrors(<<>>, NoMirror, mirrors_json)
       IN  /\ mirrors' = l.mirrors
           /\ current_mirror' = l.current
           /\ mirrors_json' =
                 IF l.saves
                 THEN save_mirrors(l.mirrors, l.current, save, mirrors_json)
                 ELSE mirrors_json
           /\ mirror_call' = [MirrorCall("load", "", <<>>) EXCEPT
                 !.ok = TRUE, !.saved = l.saves, !.doc = mirrors_json,
                 !.prev = mirror_call.op]

\* The state after MirrorManager(config_file) for a document of
\* InitialMirrorDocs.
MirrorInit ==
    /\ os_name = "posix"
    /\ envs_json = NoFile
    /\ envs = EmptyEnvs
    /\ dirs = {}
    /\ files = {}
    /\ nops = 0
    /\ last = Call("init", "")
    /\ NoEngine
    /\ GuiIdle
    /\ NoConfigManager
    /\ mirror_nops = 0
    /\ \E doc \in InitialMirrorDocs, save \in SaveOutcomes :
          LET l == load_mirrors(<<>>, NoMirror, doc)
          IN  /\ mirrors = l.mirrors
              /\ current_mirror = l.current
              /\ mirrors_json = IF l.saves
                                THEN save_mirrors(l.mirrors, l.current, save, doc)
                                ELSE doc
              /\ mirror_call = [MirrorCall("load", "", <<>>) EXCEPT
                                   !.ok = TRUE, !.saved = l.saves, !.doc = doc]

MirrorNext ==
    \/ /\ \E name \in AddNames, url \in AddUrls, save \in SaveOutcomes :
             add_mirror(name, url, save)
       /\ UNCHANGED <<env_vars, pkg_vars, gui_vars, cfg_vars>>
    \/ /\ \E name \in PickNames, save \in SaveOutcomes :
             remove_mirror(name, save)
       /\ UNCHANGED <<env_vars, pkg_vars, gui_vars, cfg_vars>>
    \/ /\ \E name \in PickNames, save \in SaveOutcomes :
             set_current_mirror(name, save)
       /\ UNCHANGED <<env_vars, pkg_vars, gui_vars, cfg_vars>>
    \/ /\ \E save \in SaveOutcomes : reset_to_default(save)
       /\ UNCHANGED <<env_vars, pkg_vars, gui_vars, cfg_vars>>
    \/ /\ \E save \in SaveOutcomes : LoadMirrors(save)
       /\ UNCHANGED <<env_vars, pkg_vars, gui_vars, cfg_vars>>

MirrorSpec == MirrorInit /\ [][MirrorNext]_vars

----------------------------------------------------------------------------
(* The mirror registry: claims.                                             *)

\* A step of MirrorSpec that is a call of the operation op.
MirrorStep(op) == mirror_nops' = mirror_nops + 1 /\ mirror_call'.op = op

\* The call c emitted operation_error.
EmitsError(c) == \E i \in DOMAIN c.signals : c.signals[i].sig = "operation_error"

\* The names of the mirrors of the sequence l are pairwise distinct.
DistinctNames(l) == \A i, j \in DOMAIN l : i # j => l[i].name # l[j].name

\* C23: the official mirror's name is reserved: in every reachable state it
\* is not a key of the user mirrors and the names of get_mirror_list() are
\* pairwise distinct.  The code violates it: add_mirror tests the name only
\* against the user mirrors, so add_mirror(official name, url) succeeds.
C23_OfficialNameReserved ==
    /\ ~Has(mirrors, OFFICIAL_MIRROR.name)
    /\ DistinctNames(get_mirror_list)

\* C24: in every reachable state exactly one mirror is current: the current
\* mirror is defined and is the official mirror or a mirror that is
\* registered under its name with its url.  The code violates it:
\* remove_mirror leaves current_mirror on the mirror it removes, and
\* load_mirrors leaves it undefined for a document with mirrors whose
\* 'current' is missing or not registered.
C24_ExactlyOneCurrent ==
    /\ current_mirror # NoMirror
    /\ \/ current_mirror = OFFICIAL_MIRROR
       \/ /\ Has(mirrors, current_mirror.name)
          /\ UrlOf(mirrors, current_mirror.name) = current_mirror.url

\* C25: after a load of a document with mirrors, a persisted current name
\* that is the official name or a registered name is resolved to its url,
\* and for a persisted name that is missing or not registered the current
\* mirror is a default and not undefined.  The code violates the second
\* part: load_mirrors chooses the default only when the document has no
\* mirrors.
C25_LoadResolvesOrFallsBack ==
    (mirror_call.op = "load" /\ mirror_call.doc.kind = "json"
     /\ mirror_call.doc.mirrors # <<>>) =>
        LET doc == mirror_call.doc
        IN  /\ doc.current = OFFICIAL_MIRROR.name =>
                  current_mirror = OFFICIAL_MIRROR
            /\ (doc.current # OFFICIAL_MIRROR.name
                /\ Has(doc.mirrors, doc.current)) =>
                  current_mirror = Mirror(doc.current, UrlOf(doc.mirrors, doc.current))
            /\ (doc.current # OFFICIAL_MIRROR.name
                /\ ~Has(doc.mirrors, doc.current)) =>
                  current_mirror # NoMirror


\* url starts with http:// or https://
HttpUrl(url) == url # <<>> /\ (Head(url) = "http://" \/ Head(url) = "https://")

\* C26: add(name, url) fails, emits an error notification and leaves the
\* mirrors and the current mirror unchanged when name is registered or url
\* does not start with http:// or https://; otherwise it succeeds and name
\* maps to url afterwards.
C26_AddChecksNameAndScheme ==
    [][MirrorStep("add") =>
        LET c == mirror_call'
        IN  IF Has(mirrors, c.name) \/ ~HttpUrl(c.url)
            THEN /\ ~c.ok
                 /\ EmitsError(c)
                 /\ mirrors' = mirrors
                 /\ current_mirror' = current_mirror
            ELSE /\ c.ok
                 /\ Has(mirrors', c.name)
                 /\ UrlOf(mirrors', c.name) = c.url]_vars

\* add("X", "ftp://host") has failed in a registry without X.
C26_Witness ==
    /\ mirror_call.op = "add" /\ mirror_call.name = "X"
    /\ mirror_call.url = <<"ftp://", "host">>
    /\ ~mirror_call.ok /\ EmitsError(mirror_call)
    /\ ~Has(mirrors, "X")

\* C27: remove(name) succeeds exactly when name is a registered mirror and
\* then removes that entry and no other; for a name that is not registered
\* it fails with an error notification and changes nothing; a remove of the
\* name of the successful remove just before it fails.
C27_RemoveOnlyRegistered ==
    [][MirrorStep("remove") =>
        LET c == mirror_call'
        IN  /\ c.ok <=> Has(mirrors, c.name)
            /\ c.ok =>
                  /\ ~Has(mirrors', c.name)
                  /\ Len(mirrors') = Len(mirrors) - 1
                  /\ \A i \in DOMAIN mirrors :
                        mirrors[i].name # c.name =>
                            \E j \in DOMAIN mirrors' : mirrors'[j] = mirrors[i]
            /\ ~c.ok =>
                  /\ EmitsError(c)
                  /\ mirrors' = mirrors
                  /\ current_mirror' = current_mirror
                  /\ mirrors_json' = mirrors_json
            /\ (mirror_call.op = "remove" /\ mirror_call.ok
                /\ mirror_call.name = c.name) => ~c.ok]_vars

\* remove("Aliyun") has failed directly after remove("Aliyun") succeeded on
\* the default mirrors: the other four are left.
C27_Witness ==
    /\ mirror_nops = 2
    /\ mirror_call.op = "remove" /\ mirror_call.name = "Aliyun"
    /\ mirror_call.prev = "remove"
    /\ ~mirror_call.ok /\ EmitsError(mirror_call)
    /\ Len(mirrors) = 4 /\ Has(mirrors, "Tsinghua") /\ Has(mirrors, "Douban")

\* C28: set_current(official name) succeeds in every state and makes the
\* official mirror current; set_current(name) for a name that is neither
\* the official name nor registered fails, emits an error notification and
\* leaves the current mirror and the persisted document unchanged.
C28_SetCurrent ==
    [][MirrorStep("set_current") =>
        LET c == mirror_call'
        IN  /\ c.name = OFFICIAL_MIRROR.name =>
                  c.ok /\ current_mirror' = OFFICIAL_MIRROR
            /\ (c.name # OFFICIAL_MIRROR.name /\ ~Has(mirrors, c.name)) =>
                  /\ ~c.ok
                  /\ EmitsError(c)
                  /\ current_mirror' = current_mirror
                  /\ mirrors_json' = mirrors_json]_vars

\* set_current("nonexistent") has failed directly after another
\* set_current, while the official mirror was current: it still is, in
\* memory and in the document.
C28_Witness ==
    /\ mirror_call.op = "set_current" /\ mirror_call.name = "nonexistent"
    /\ mirror_call.prev = "set_current"
    /\ ~mirror_call.ok
    /\ current_mirror = OFFICIAL_MIRROR
    /\ mirrors_json.kind = "json" /\ mirrors_json.current = OFFICIAL_MIRROR.name
    /\ ~Has(mirrors, OFFICIAL_MIRROR.name)

\* C29: in every reachable state get_mirror_list() is the official mirror
\* followed by exactly the user mirrors, in their order: no remove makes the
\* official mirror leave the listing.
C29_OfficialFirst ==
    /\ Len(get_mirror_list) = Len(mirrors) + 1
    /\ get_mirror_list[1] = OFFICIAL_MIRROR
    /\ \A i \in DOMAIN mirrors : get_mirror_list[i + 1] = mirrors[i]

\* remove(official name) has been called after the only user mirror was
\* removed: the listing is the official mirror alone.
C29_Witness ==
    /\ mirror_call.op = "remove" /\ mirror_call.name = OFFICIAL_MIRROR.name
    /\ mirrors = <<>>
    /\ get_mirror_list = <<OFFICIAL_MIRROR>>

\* C30: reset_to_default() succeeds from every state and leaves exactly the
\* built-in mirrors with the first of them as the current mirror; a reset
\* directly after a reset leaves the mirrors and the current mirror as they
\* were.
C30_ResetIdempotent ==
    [][MirrorStep("reset") =>
        /\ mirror_call'.ok
        /\ [i \in DOMAIN mirrors' |-> mirrors'[i].name] =
              <<"Tsinghua", "Aliyun", "Huawei", "USTC", "Douban">>
        /\ current_mirror' = mirrors'[1]
        /\ mirror_call.op = "reset" =>
              mirrors' = mirrors /\ current_mirror' = current_mirror]_vars

\* reset_to_default() has been called directly after a reset_to_default():
\* the mirrors are the built-in ones and the first of them is current.
C30_Witness ==
    /\ mirror_call.op = "reset" /\ mirror_call.prev = "reset"
    /\ mirror_call.ok
    /\ ~Has(mirrors, "X") /\ Len(mirrors) = 5
    /\ current_mirror.name = "Tsinghua"


----------------------------------------------------------------------------
(* The environment registry: further claims.                                *)

\* C35: delete(n) of a registered n removes no directory and no file outside
\* the root path recorded in n's entry.  The code violates it: delete_env
\* removes envs_dir/n whatever path the entry records.
C35_DeleteOnlyRegisteredRoot ==
    [][(last'.op = "delete" /\ last'.name \in DOMAIN envs) =>
          /\ dirs \ dirs' \subseteq {envs[last'.name].path}
          /\ files \ files' \subseteq Under(envs[last'.name].path, files)]_vars

\* C39: an import(src, n) that fails while copying leaves the registry, its
\* document, the directories and the files as they were before the call.
\* The code violates it: the destination directory made before the copy and
\* whatever was copied before the failure are left behind.
C39_FailedImportLeavesNothing ==
    [][(last'.op = "import" /\ last'.cause = "copytree") =>
          /\ ~last'.ok
          /\ envs' = envs
          /\ envs_json' = envs_json
          /\ dirs' = dirs
          /\ files' = files]_vars


----------------------------------------------------------------------------
(* The package engine: further claims.                                      *)

\* C36: no operation of an engine sets its flag again once cancel() has
\* cleared it; a load entered after cancel() whose listing holds at least
\* one package returns at the first package without emitting the result or
\* an error, and one whose listing holds no package emits its empty result.
C36_CancelIsPermanent ==
    [][/\ (~is_running /\ pkg_call'.op # "construct") => ~is_running'
       /\ (pkg_call.op = "load" /\ pkg_call.cancelled
           /\ pc \in {"loop", "show"} /\ pc' = "idle") =>
             IF packages # <<>>
             THEN /\ idx = 0
                  /\ Positions(events', {"package_loaded", "package_load_error"}) = {}
             ELSE /\ Positions(events', {"package_loaded"}) # {}
                  /\ \A i \in Positions(events', {"package_loaded"}) :
                        events'[i] = Loaded(NoPackages)]_vars

\* A load entered after cancel() has returned over a listing of two
\* packages: it looked none up and emitted the progress 0, 25, 100 only.
C36_Witness ==
    /\ Returned
    /\ pkg_call.cancelled /\ ~is_running
    /\ Len(packages) = 2
    /\ idx = 0
    /\ events = <<Progress(0), Progress(25), Progress(100)>>

\* C37: every load that has returned emitted progress 100 as its last
\* signal, on every path; unless it returned because it found the flag
\* cleared, it emitted exactly one signal that is the result or the load
\* error.
C37_LoadEndsWith100 ==
    Returned =>
        /\ events # <<>>
        /\ events[Len(events)] = Progress(100)
        /\ pkg_call.cause # "cancel" =>
              Cardinality(Positions(events, {"package_loaded", "package_load_error"})) = 1

\* A load has returned because pip show raised for its second package: it
\* emitted the load error, then progress 100, and no result.
C37_Witness ==
    /\ Returned
    /\ pkg_call.cause = "show"
    /\ idx = 1
    /\ Len(events) = 5
    /\ events[4].sig = "package_load_error"
    /\ events[5] = Progress(100)
    /\ Positions(events, {"package_loaded"}) = {}


----------------------------------------------------------------------------
(* The mirror registry: further claims.                                     *)

\* C31: after a load the registry is not empty; when the document is
\* missing, is not JSON or holds no mirrors, the mirrors are the built-in
\* ones and the current mirror is defined.
C31_LoadNeverEmpty ==
    mirror_call.op = "load" =>
        /\ mirrors # <<>>
        /\ (mirror_call.doc.kind # "json" \/ mirror_call.doc.mirrors = <<>>) =>
              /\ [i \in DOMAIN mirrors |-> mirrors[i].name] =
                    <<"Tsinghua", "Aliyun", "Huawei", "USTC", "Douban">>
              /\ current_mirror # NoMirror
              /\ \/ current_mirror = OFFICIAL_MIRROR
                 \/ current_mirror = mirrors[1]

\* A manager has been constructed on the document left by removing the only
\* mirror X, which was current: it holds the built-in mirrors and the first
\* of them is current.
C31_Witness ==
    /\ mirror_call.op = "load" /\ mirror_call.prev = "remove"
    /\ mirror_call.doc = MirrorsDoc(<<>>, "X")
    /\ Len(mirrors) = 5
    /\ current_mirror = mirrors[1]

\* C38: in every reachable state, when the current mirror is a user mirror
\* (its name is registered), the url it holds is the url registered under
\* its name.  The code violates it: remove_mirror and add_mirror leave
\* current_mirror alone, so removing the current mirror and adding its name
\* with another url leaves the old url current.
C38_CurrentUrlIsRegisteredUrl ==
    (current_mirror # NoMirror /\ current_mirror # OFFICIAL_MIRROR
     /\ Has(mirrors, current_mirror.name)) =>
        UrlOf(mirrors, current_mirror.name) = current_mirror.url


----------------------------------------------------------------------------
(* The configuration store: bounds, inputs and operations.                  *)

\* At most MaxCfgOps configuration operations are called after the
\* construction.
MaxCfgOps == 3

\* The keys of the documents, in the order json.dump writes them.
KeyOrder == <<"host", "port">>

\* The documents handed to save_config: two keys, one key, none.
SavedDocs ==
    {[k \in {"host", "port"} |-> IF k = "host" THEN "a" ELSE "1080"],
     [k \in {"host"} |-> "b"],
     EmptyDoc}

\* The updates handed to update_config: a key the documents may lack, and a
\* key with a new value.
Updates == {[k \in {"port"} |-> "8080"], [k \in {"host"} |-> "c"]}

\* json.dump(config_data, f): the text written.
json_dump(config_data) ==
    LET ks == SelectSeq(KeyOrder, LAMBDA k : k \in DOMAIN config_data)
    IN  [i \in DOMAIN ks |-> <<ks[i], config_data[ks[i]]>>]

\* json.load(f): the document a text holds.
json_load(text) ==
    [k \in {text[i][1] : i \in DOMAIN text} |->
        text[CHOOSE i \in DOMAIN text : text[i][1] = k][2]]

\* The files a ConfigManager can find at construction: none, one that is
\* not JSON, one written earlier.
InitialConfigFiles ==
    {NoConfigFile, CorruptConfig,
     JsonFile(json_dump([k \in {"host", "port"} |->
                            IF k = "host" THEN "old" ELSE "1080"]))}

\* A load_config that takes a file without JSON for an empty document.
cm_load_config_lenient(config_name) ==
    IF cfg_files[config_name].kind = "absent"
    THEN [found |-> FALSE, doc |-> EmptyDoc]
    ELSE [found |-> TRUE, doc |-> json_load(cfg_files[config_name].text)]

\* load_config(config_name): the document, or None (found = FALSE) when the
\* file does not exist or json.load raises.
cm_load_config(config_name) ==
    IF cfg_files[config_name].kind = "json"
    THEN [found |-> TRUE, doc |-> json_load(cfg_files[config_name].text)]
    ELSE [found |-> FALSE, doc |-> EmptyDoc]

\* A save_config whose except clause only logs.
SaveFailed_silent(config_name) == <<>>

\* What the except clause of save_config emits.
SaveFailed(config_name) ==
    <<Signal("operation_error", <<"save failed: ", config_name>>)>>

\* save_config(config_name, config_data): the files and the cache after it,
\* what it returns and what it emits.  open(path, 'w') truncates the file,
\* so a json.dump that raises leaves a file that is no JSON.
cm_save_config(config_name, config_data, save) ==
    IF save = "ok"
    THEN [files |-> [cfg_files EXCEPT
                        ![config_name] = JsonFile(json_dump(config_data))],
          configs |-> Put(configs, config_name, config_data),
          ok |-> TRUE,
          signals |-> <<Signal("config_changed", <<config_name>>)>>]
    ELSE [files |-> IF save = "open_fails" THEN cfg_files
                    ELSE [cfg_files EXCEPT ![config_name] = CorruptConfig],
          configs |-> configs,
          ok |-> FALSE,
          signals |-> SaveFailed(config_name)]

\* An update that replaces the document by the updates.
dict_update_replaces(current_config, updates) == updates

\* current_config.update(updates)
dict_update(current_config, updates) ==
    [k \in DOMAIN current_config \cup DOMAIN updates |->
        IF k \in DOMAIN updates THEN updates[k] ELSE current_config[k]]

\* A call of load_config(config_name).
LoadConfig(config_name) ==
    /\ cfg_nops < MaxCfgOps
    /\ cfg_nops' = cfg_nops + 1
    /\ LET r == cm_load_config(config_name)
       IN  cfg_call' = [CfgCall("load", config_name) EXCEPT
                           !.found = r.found, !.doc = r.doc,
                           !.before = cfg_files[config_name]]
    /\ UNCHANGED <<cfg_files, configs>>

\* A call of save_config(config_name, config_data).
SaveConfig(config_name, config_data, save) ==
    /\ cfg_nops < MaxCfgOps
    /\ cfg_nops' = cfg_nops + 1
    /\ LET r == cm_save_config(config_name, config_data, save)
       IN  /\ cfg_files' = r.files
           /\ configs' = r.configs
           /\ cfg_call' = [CfgCall("save", config_name) EXCEPT
                              !.data = config_data, !.ok = r.ok,
                              !.signals = r.signals,
                              !.before = cfg_files[config_name]]

\* update_config(config_name, updates)
update_config(config_name, updates, save) ==
    /\ cfg_nops < MaxCfgOps
    /\ cfg_nops' = cfg_nops + 1
    /\ LET c == [CfgCall("update", config_name) EXCEPT
                    !.data = updates, !.before = cfg_files[config_name]]
           current_config == cm_load_config(config_name)
       IN  IF ~current_config.found
           THEN /\ cfg_call' = c
                /\ UNCHANGED <<cfg_files, configs>>
           ELSE LET r == cm_save_config(config_name,
                             dict_update(current_config.doc, updates), save)
                IN  /\ cfg_files' = r.files
                    /\ configs' = r.configs
                    /\ cfg_call' = [c EXCEPT !.found = TRUE,
                                             !.doc = current_config.doc,
                                             !.ok = r.ok,
                                             !.signals = r.signals]

\* delete_config(name): os.remove raises, or the file and the cached
\* document are removed.
delete_config(name, rm) ==
    /\ cfg_nops < MaxCfgOps
    /\ cfg_nops' = cfg_nops + 1
    /\ IF cfg_files[name].kind # "absent" /\ rm = "raise"
       THEN /\ cfg_call' = [CfgCall("delete", name) EXCEPT
                   !.before = cfg_files[name], !.signals =
                   <<Signal("operation_error", <<"delete failed: ", name>>)>>]
            /\ UNCHANGED <<cfg_files, configs>>
       ELSE /\ cfg_files' = [cfg_files EXCEPT ![name] = NoConfigFile]
            /\ configs' = [n \in DOMAIN configs \ {name} |-> configs[n]]
            /\ cfg_call' = [CfgCall("delete", name) EXCEPT !.ok = TRUE,
                   !.before = cfg_files[name],
                   !.signals = <<Signal("config_changed", <<name>>)>>]

\* The state after ConfigManager(config_dir) on a directory holding any of
\* the files of InitialConfigFiles.
ConfigInit ==
    /\ os_name = "posix"
    /\ envs_json = NoFile
    /\ envs = EmptyEnvs
    /\ dirs = {}
    /\ files = {}
    /\ nops = 0
    /\ last = Call("init", "")
    /\ NoEngine
    /\ GuiIdle
    /\ NoMirrorManager
    /\ cfg_files \in [ConfigNames -> InitialConfigFiles]
    /\ configs = [n \in {} |-> EmptyDoc]
    /\ cfg_nops = 0
    /\ cfg_call = CfgCall("none", "")

ConfigNext ==
    \/ /\ \E n \in ConfigNames : LoadConfig(n)
       /\ UNCHANGED <<env_vars, pkg_vars, gui_vars, mirror_vars>>
    \/ /\ \E n \in ConfigNames, d \in SavedDocs, save \in SaveOutcomes :
             SaveConfig(n, d, save)
       /\ UNCHANGED <<env_vars, pkg_vars, gui_vars, mirror_vars>>
    \/ /\ \E n \in ConfigNames, u \in Updates, save \in SaveOutcomes :
             update_config(n, u, save)
       /\ UNCHANGED <<env_vars, pkg_vars, gui_vars, mirror_vars>>
    \/ /\ \E n \in ConfigNames, rm \in {"ok", "raise"} : delete_config(n, rm)
       /\ UNCHANGED <<env_vars, pkg_vars, gui_vars, mirror_vars>>

ConfigSpec == ConfigInit /\ [][ConfigNext]_vars


----------------------------------------------------------------------------
(* The configuration store: claims.                                         *)

\* A step of ConfigSpec that is a call of the operation op.
ConfigStep(op) == cfg_nops' = cfg_nops + 1 /\ cfg_call'.op = op

\* The document doc is old with every key of updates overridden and every
\* other key as it was.
IsMerge(doc, old, updates) ==
    /\ DOMAIN doc = DOMAIN old \cup DOMAIN updates
    /\ \A k \in DOMAIN updates : doc[k] = updates[k]
    /\ \A k \in DOMAIN old \ DOMAIN updates : doc[k] = old[k]

\* C32: save(name, document) returns a boolean and emits exactly one
\* signal that agrees with it: config_changed with True, operation_error
\* with False; after a save that returned True, load(name) returns exactly
\* the document saved, with no key of the document stored before.
C32_SaveReportsOnce ==
    [][ConfigStep("save") =>
          /\ Len(cfg_call'.signals) = 1
          /\ cfg_call'.ok <=> cfg_call'.signals[1].sig = "config_changed"
          /\ ~cfg_call'.ok <=> cfg_call'.signals[1].sig = "operation_error"
          /\ \A n \in ConfigNames, d \in SavedDocs :
                (cfg_call'.name = n /\ cfg_call'.data = d /\ cfg_call'.ok) =>
                    /\ cm_load_config(n)'.found
                    /\ cm_load_config(n)'.doc = d
                    /\ DOMAIN cm_load_config(n)'.doc = DOMAIN d]_vars

\* A document with the key host alone has been saved over a stored document
\* with the keys host and port: load returns the key host alone.
C32_Witness ==
    /\ cfg_call.op = "save" /\ cfg_call.ok
    /\ cfg_call.before.kind = "json" /\ Len(cfg_call.before.text) = 2
    /\ DOMAIN cfg_call.data = {"host"}
    /\ cm_load_config(cfg_call.name).found
    /\ DOMAIN cm_load_config(cfg_call.name).doc = {"host"}

\* C33: load(name) returns None when the file does not exist or does not
\* parse, returns the document the file holds otherwise, and changes no
\* file and no cached document.
C33_LoadReadsOnly ==
    [][ConfigStep("load") =>
          /\ cfg_files' = cfg_files
          /\ configs' = configs
          /\ \A n \in ConfigNames : cfg_call'.name = n =>
                IF cfg_files[n].kind \in {"absent", "corrupt"}
                THEN ~cfg_call'.found
                ELSE /\ cfg_call'.found
                     /\ json_dump(cfg_call'.doc) = cfg_files[n].text]_vars

\* load has returned None for a file that holds no JSON, left by a save
\* that failed while writing.
C33_Witness ==
    /\ cfg_call.op = "load" /\ ~cfg_call.found
    /\ cfg_call.before = CorruptConfig
    /\ cfg_files[cfg_call.name] = CorruptConfig
    /\ cfg_nops >= 2

\* C34 as stated: update(name, partial) returns failure and writes nothing
\* when the document cannot be loaded; otherwise the stored document
\* afterwards is the previous one with the keys of partial overridden.
C34_UpdateStoresMerge ==
    [][ConfigStep("update") =>
          \A n \in ConfigNames : cfg_call'.name = n =>
              IF ~cm_load_config(n).found
              THEN ~cfg_call'.ok /\ cfg_files' = cfg_files
              ELSE /\ cm_load_config(n)'.found
                   /\ IsMerge(cm_load_config(n)'.doc, cm_load_config(n).doc,
                              cfg_call'.data)]_vars

\* C34: update(name, partial) returns failure, emits nothing and writes
\* nothing when the document cannot be loaded; otherwise it returns what
\* the save of the merged document returns: on success the stored document
\* is the previous one with each key of partial overridden and every other
\* key unchanged; on failure it emits operation_error and the file is as it
\* was or, when the write failed after the file was opened, no JSON any
\* more.  The file of no other name changes.
C34_UpdateMergesWhenSaved ==
    [][ConfigStep("update") =>
          \A n \in ConfigNames : cfg_call'.name = n =>
              /\ \A m \in ConfigNames \ {n} : cfg_files'[m] = cfg_files[m]
              /\ IF ~cm_load_config(n).found
                 THEN /\ ~cfg_call'.ok
                      /\ cfg_call'.signals = <<>>
                      /\ cfg_files' = cfg_files
                      /\ configs' = configs
                 ELSE IF cfg_call'.ok
                 THEN /\ cm_load_config(n)'.found
                      /\ IsMerge(cm_load_config(n)'.doc, cm_load_config(n).doc,
                                 cfg_call'.data)
                 ELSE /\ Len(cfg_call'.signals) = 1
                      /\ cfg_call'.signals[1].sig = "operation_error"
                      /\ cfg_files'[n] \in {cfg_files[n], CorruptConfig}
                      /\ configs' = configs]_vars

\* An update of host has succeeded on a stored document with the keys host
\* and port: host is overridden, port is as it was.
C34_Witness ==
    /\ cfg_call.op = "update" /\ cfg_call.ok
    /\ DOMAIN cfg_call.data = {"host"}
    /\ DOMAIN cfg_call.doc = {"host", "port"}
    /\ cfg_call.doc["host"] # "c"
    /\ cm_load_config(cfg_call.name).doc =
          [k \in {"host", "port"} |-> IF k = "host" THEN "c" ELSE cfg_call.doc["port"]]

\* C40: a save(name, document) that returns failure leaves the document
\* stored under name, on disk and in the cache, as it was before the call.
\* The code violates it: open(path, 'w') truncates the file before
\* json.dump runs, so a dump that raises has destroyed the stored document.
C40_FailedSaveKeepsDocument ==
    [][(ConfigStep("save") /\ ~cfg_call'.ok) =>
          \A n \in ConfigNames :
              (cfg_call'.name = n /\ cm_load_config(n).found) =>
                  /\ cm_load_config(n)' = cm_load_config(n)
                  /\ configs' = configs]_vars

=============================================================================
